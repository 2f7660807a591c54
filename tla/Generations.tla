----------------------------- MODULE Generations -----------------------------
(***************************************************************************)
(* What the controller promises the data plane of an ECMP-ER router.       *)
(*                                                                         *)
(* For each prefix in service the router holds two blocks of nexthops: the *)
(* current one, for packets that come from clients, and the previous one,  *)
(* for packets that a server sent back.  An update withdraws every prefix, *)
(* moves on to new blocks, and offers the prefixes again; the previous     *)
(* block of a prefix is then, slot by slot, the block that was current     *)
(* before the update.  A second update never starts before the first one   *)
(* has offered everything.                                                 *)
(***************************************************************************)
CONSTANTS Prefixes, Blocks,
          NoBlock      \* an element of Blocks

VARIABLES serving,    \* prefixes that have an LPM entry
          updating,   \* TRUE from the move to new blocks until all are offered
          cur, prv    \* the blocks; NoBlock for a prefix without routes

vars == <<serving, updating, cur, prv>>

TypeInvariant ==
  /\ serving \subseteq Prefixes
  /\ updating \in BOOLEAN
  /\ cur \in [Prefixes -> Blocks]
  /\ prv \in [Prefixes -> Blocks]

Nothing == [p \in Prefixes |-> NoBlock]

Init == serving = {} /\ updating = FALSE /\ cur = Nothing /\ prv = Nothing

(* The blocks of a withdrawn prefix are out of use; its current block is   *)
(* remembered as the one to come back as the previous block.               *)
Withdraw(p) ==
  /\ ~ updating /\ p \in serving
  /\ serving' = serving \ {p}
  /\ prv' = [prv EXCEPT ![p] = NoBlock]
  /\ UNCHANGED <<updating, cur>>

(* Mutant of Advance: the previous generation is an alias of the current. *)
AdvanceAliased ==
  /\ ~ updating /\ serving = {}
  /\ updating' = TRUE
  /\ cur' \in [Prefixes -> Blocks]
  /\ prv' = cur'
  /\ UNCHANGED serving

Advance ==
  /\ ~ updating /\ serving = {}
  /\ updating' = TRUE
  /\ prv' = cur
  /\ cur' \in [Prefixes -> Blocks]
  /\ UNCHANGED serving

HasBlock(p) == cur[p] # NoBlock \/ prv[p] # NoBlock

Offer(p) ==
  /\ updating /\ p \notin serving /\ HasBlock(p)
  /\ serving' = serving \cup {p}
  /\ UNCHANGED <<updating, cur, prv>>

Complete ==
  /\ updating /\ serving = {p \in Prefixes : HasBlock(p)}
  /\ updating' = FALSE
  /\ UNCHANGED <<serving, cur, prv>>

(* /clear, or a restart of the controller, which resets the switch. *)
Reset ==
  /\ serving' = {} /\ updating' = FALSE /\ cur' = Nothing /\ prv' = Nothing

Next ==
  \/ \E p \in Prefixes : Withdraw(p) \/ Offer(p)
  \/ Advance \/ Complete \/ Reset

Spec == Init /\ [][Next]_vars
=============================================================================
