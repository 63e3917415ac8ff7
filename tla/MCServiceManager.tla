-------------------------- MODULE MCServiceManager --------------------------
(***************************************************************************)
(* Instances of ServiceManager: the demo server's kinds of service, a      *)
(* throttled monitor, the HTTP manager with one HttpService, and a plain   *)
(* one, registered in main.cpp's order.                                    *)
(***************************************************************************)
EXTENDS ServiceManager, TLC

CONSTANTS monitor, manager, http, net, w1, w2

Monitored == <<monitor, manager, http>>
Plain     == <<manager, http, net>>
TwoKinds  == <<manager, http>>

(* The pool's threads are interchangeable.                                 *)
AnyWorker == Permutations({w1, w2})
=============================================================================
