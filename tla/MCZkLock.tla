------------------------------- MODULE MCZkLock -------------------------------
(***************************************************************************)
(* Model values for ZkLock.  Addresses are strings; InetAddress.toString,  *)
(* which Main passes to getLock, puts the host name and a slash before the *)
(* address, so it is the address of no host.                               *)
(***************************************************************************)
EXTENDS ZkLock, TLC

CONSTANTS p1, p2, p3

ThreeProcs == {p1, p2, p3}

(* p1 and p2 run on one host, p3 on another. *)
SharedHost == (p1 :> "10.0.0.1") @@ (p2 :> "10.0.0.1") @@ (p3 :> "10.0.0.2")
MainArgument ==
  (p1 :> "a/10.0.0.1") @@ (p2 :> "a/10.0.0.1") @@ (p3 :> "b/10.0.0.2")
=============================================================================
