--------------------------- MODULE MCFeedMonitor ---------------------------
(* Small instances of FeedMonitor for TLC.                                 *)
EXTENDS FeedMonitor

CONSTANTS f1, f2

TwoFeeds == <<f1, f2>>

Unlimited == -1
=============================================================================
