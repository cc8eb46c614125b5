-------------------------- MODULE MCCollectionSession --------------------------
(***************************************************************************)
(* Instances of CollectionSession for TLC: the API host and a command, one *)
(* process id that may be used again, and a socket without a remote end.   *)
(***************************************************************************)
EXTENDS CollectionSession, TLC

CONSTANTS host, cli

\* A session of the host sees processes, or connections and the security log,
\* one of the command the security log.
SomeSelections == (host :> {{"process"}, {"network", "auth"}}) @@ (cli :> {{"auth"}})

\* A process with too long a path.
SomeOversized == {<<4, 3>>}
=============================================================================
