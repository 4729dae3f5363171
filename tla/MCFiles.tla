------------------------------ MODULE MCFiles ------------------------------
(* Two processes, the initramfs with one file, and tmpfs instances on /tmp. *)
EXTENDS Files
MCPaths == {<<"a">>, <<"b">>, <<"tmp", "a">>, <<"tmp", "b">>, <<"tmp", "b", "a">>}
MCTargets == {<<"tmp", "a">>, <<"b">>}
MCPoints == {<<"tmp">>}
=============================================================================
