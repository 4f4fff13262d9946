------------------------------ MODULE MCSessions ------------------------------
EXTENDS Sessions
===============================================================================
