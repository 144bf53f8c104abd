-------------------------------- MODULE Sids --------------------------------
\* The identities of deployments, which the server, the connection and the
\* gardens share.
CONSTANT Id
=============================================================================
