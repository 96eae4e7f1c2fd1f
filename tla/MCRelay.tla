------------------------------- MODULE MCRelay -------------------------------
\* Relay with a few frames in each direction and small socket buffers.
EXTENDS Relay
=============================================================================
