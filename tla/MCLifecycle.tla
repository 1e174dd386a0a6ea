---------------------------- MODULE MCLifecycle ----------------------------
EXTENDS Lifecycle
CONSTANTS m1, m2
MCMessage == {m1, m2}
=============================================================================
