-------------------------- MODULE MCDiscoveryWorker --------------------------
(***************************************************************************)
(* A TLC instance of DiscoveryWorker: two pages of a curated host over     *)
(* https and one over http, a page of another host, and a URL that is not  *)
(* public; a name without addresses, and an address that is not routable   *)
(* beside two that are.                                                    *)
(***************************************************************************)
EXTENDS DiscoveryWorker

MCUrls == {"poem", "song", "plain", "away", "inner"}
MCPublic == MCUrls \ {"inner"}
MCSecure == {"poem", "song", "away"}
MCCurated == {"poem", "plain"}
MCHostOf == [u \in MCUrls |->
  CASE u = "away" -> "other" [] u = "inner" -> "local" [] OTHER -> "curated"]
MCAnswers == {{}, {1}, {1, 2}, {0, 1}}
=============================================================================
