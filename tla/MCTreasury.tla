---- MODULE MCTreasury ----
(* Instances of Treasury for TLC.                                           *)
EXTENDS Treasury, TLC

(* Signers play the same part, and so do pause signers.                     *)
SignerSymmetry == Permutations(Signers) \cup Permutations(PauseSigners)

(* No token contract is distinguished before set_token or initialize.       *)
TokenSymmetry == Permutations(Tokens)

(* After the second initialize, follow withdrawal ballots or pause ballots, *)
(* not both: only `paused` connects them.                                   *)
OneBallotAfterReset ==
    inits > 1 => \/ \A id \in Ids : approvals[id] = {}
                 \/ \A id \in PauseIds : pause_approvals[id] = {}

(* Nothing in the books reads the time, except whether a proposal expired:  *)
(* the clock is followed where it expires one.                              *)
TimeExpiresProposals == now > 1 => \E id \in Ids : proposal[id] # NoProposal /\ ~Live(id)

(* No step reads the time to live with the depositors or the floor: propose *)
(* without an expiry, set it back, and then make the others.                *)
OneSettingAtATime == proposal_ttl # DefaultTtl => depositors = {} /\ min_liquidity = 0
====
