----------------------- MODULE MCProducerConsumerQueue -----------------------
EXTENDS ProducerConsumerQueue
===============================================================================
