------------------------------ MODULE MCSendPath ------------------------------
EXTENDS SendPath

Bytes == 0 .. MaxBytes
===============================================================================
