------------------------- MODULE ControllerRefinement -------------------------
(***************************************************************************)
(* A controller with one handler implements Generations.  The blocks of a  *)
(* prefix in service are read from the tables of the switch, as a packet   *)
(* would; those of a withdrawn prefix exist only in the controller's RIBs. *)
(***************************************************************************)
EXTENDS Controller

Shown(nh, offset, count) == [x \in 1 .. count |-> nh[offset + x - 1]]

BlockOf(nh) == [x \in DOMAIN ExpandNh(nh) |-> NhValue(ExpandNh(nh)[x])]

h0 == CHOOSE h \in Handlers : TRUE

(* process_routes has taken its snapshot, and LPM entries may be left. *)
BeforeAdvance ==
  \/ pc[h0] \in {"adds", "dels", "build", "build_cur", "encode"}
  \/ job[h0] = "install" /\ pc[h0] \in {"read", "delete"} /\ tab[h0] = "ipv4_lpm"

Updating ==
  /\ job[h0] = "install"
  /\ \/ pc[h0] \in {"read", "delete"} /\ tab[h0] # "ipv4_lpm"
     \/ pc[h0] \in {"drop_prv", "drop_cur", "put_prv", "put_cur", "put_lpm", "finish"}

CurRib == IF BeforeAdvance THEN prv_routes[nh_installer] ELSE cur_routes[nh_installer]

CurBlock(p) ==
  LET e == ipv4_lpm[p] IN
  IF e # Absent THEN Shown(cur_nh, e.cur_offset, e.cur_count) ELSE BlockOf(CurRib[p])

PrvBlock(p) ==
  LET e == ipv4_lpm[p] IN
  IF e # Absent THEN Shown(prv_nh, e.prv_offset, e.prv_count)
  ELSE IF Updating THEN BlockOf(prv_routes[nh_installer][p]) ELSE <<>>

G == INSTANCE Generations
       WITH Blocks <- Seq(NhAddrs), NoBlock <- <<>>,
            serving <- Present("ipv4_lpm"), updating <- Updating,
            cur <- [p \in Prefixes |-> CurBlock(p)],
            prv <- [p \in Prefixes |-> PrvBlock(p)]

(* Every step of the controller is a step of Generations or none at all:   *)
(* what retransmitted packets are sent by is exactly what client packets   *)
(* were sent by before the last completed /install.                        *)
Refinement == G!Spec
=============================================================================
