----------------------------- MODULE MCNotifier -----------------------------
EXTENDS Notifier

\* The two api types the code knows and one it does not.
MCAPITypes == {"rabbit-api", "notifier", "grpc"}
=============================================================================
