---------------------------- MODULE MCEditSession ----------------------------
\* Two products that begin with equal texts.
EXTENDS EditSession
=============================================================================
