---- MODULE MCServices ----
(***************************************************************************)
(* The two services of the bond that wait for somebody to come by, on one  *)
(* ledger, for TLC: claims, which keepers sweep once they have expired,    *)
(* and the liquidation scanner.  They share nothing but the clock, so that *)
(* it is enough to follow them one at a time.                              *)
(***************************************************************************)
EXTENDS Claims, Scanner

ServicesInit == LedgerInit /\ ClaimsInit /\ ScannerInit

(* Time passes once there are claims, which read it.                        *)
ServicesNext ==
    \/ ~ClaimsInit /\ Tick /\ UNCHANGED <<claimsVars, scannerVars>>
    \/ ScannerInit /\ ClaimsNext /\ UNCHANGED <<now, scannerVars>>
    \/ ClaimsInit /\ ScannerNext /\ UNCHANGED <<now, claimsVars>>

servicesVars == <<now, claimsVars, scannerVars>>
ServicesSpec == ServicesInit /\ [][ServicesNext]_servicesVars /\ KeepersSweep /\ KeepersScan
====
