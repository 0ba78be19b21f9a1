------------------------------ MODULE MCLinkStore ------------------------------
\* The link store of a worktree on a branch that names its issue; the main
\* checkout, where some commands and the TUI resolve, is detached.
EXTENDS LinkStore, TLC

CONSTANTS main, topic, acme, fork, github, gitlab

MCBranchIssue == topic :> 1

=============================================================================
