----------------------------- MODULE MCNewsList -----------------------------
(* NewsList for TLC. *)
EXTENDS NewsList

Shown == {"title", "urlToImage"}

\* An article that can be decoded may lack a title or an image.  One that cannot,
\* for one of three reasons, loses the response whatever else it has.
SomeShapes ==
    [keys : {Keys \ missing : missing \in SUBSET Shown}, date : {"publishedAt"}]
    \cup {[keys |-> Keys \ {"source"}, date |-> "publishedAt"],
          [keys |-> Keys \ {"publishedAt"}, date |-> "publishedAt"],
          [keys |-> Keys, date |-> "garbled"]}
=============================================================================
