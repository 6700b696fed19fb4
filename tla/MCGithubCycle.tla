---------------------------- MODULE MCGithubCycle ----------------------------
(* GithubCycle on a small pull request. *)
EXTENDS GithubCycle
\* A comment with or without the commit it is about, and an inline comment.
ThreeWays == {<<"issue_comment", FALSE>>, <<"issue_comment", TRUE>>,
              <<"review_comment", TRUE>>}
==============================================================================
