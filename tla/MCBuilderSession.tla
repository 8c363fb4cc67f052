-------------------------- MODULE MCBuilderSession --------------------------
EXTENDS BuilderSession
=============================================================================
