--------------------------- MODULE MCAppLifeCycle ---------------------------
EXTENDS AppLifeCycle

\* Another thread closes the app once it runs.
WhenRunning == {"ON_INIT_DONE"}

\* Another thread closes the app at any time.
AtAnyTime == AppStates
=============================================================================
