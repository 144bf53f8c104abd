---------------------------- MODULE MCGuestAgent ----------------------------
EXTENDS GuestAgent

\* Three processes: a root, a child, and a grandchild that can be orphaned.
MCProc == 1 .. 3
=============================================================================
