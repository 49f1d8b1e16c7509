------------------------------ MODULE MCWorker ------------------------------
EXTENDS Worker

=============================================================================
