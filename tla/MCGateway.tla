------------------------------ MODULE MCGateway ------------------------------
\* Gateway with the processes of one request at a time (MCGateway.cfg) and a
\* signal at any time (MCGatewaySignal.cfg).
EXTENDS Gateway
=============================================================================
