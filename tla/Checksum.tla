------------------------------- MODULE Checksum -------------------------------
(***************************************************************************)
(* xfrm_for_retransmit of xdp/redirect.c: the ToS byte of an IPv4 header   *)
(* becomes ECMP_ER_TOS_RETRANSMITTED and the header checksum is updated    *)
(* from the old and the new value of the word that holds the byte, instead *)
(* of from the whole header.  Words are loaded in the byte order of the    *)
(* host, little endian, so that ToS is the high byte of the first word.    *)
(***************************************************************************)
EXTENDS Integers

Words == 0 .. 65535
Bytes == 0 .. 255

VersionIhl == 69           \* 0x45
Retransmitted == 1         \* ECMP_ER_TOS_RETRANSMITTED

CONSTANT TosValues         \* ToS bytes of the headers that are tried

ASSUME TosValuesAssumption == TosValues \subseteq Bytes

FirstWord(tos) == 256 * tos + VersionIhl

Complement(w) == 65535 - w

(* new_cksum has 32 bits; it is folded once and cut to 16 bits. *)
Folded(sum) == (sum \div 65536) + (sum % 65536)

(* Mutant of UpdateChecksum: the carry is not folded back. *)
UpdateChecksumUnfolded(check, old, new) ==
  Complement((Complement(check) + Complement(old) + new) % 65536)

UpdateChecksum(check, old, new) ==
  Complement(Folded(Complement(check) + Complement(old) + new) % 65536)

(* A receiver that verifies (the parser of the Tofino router does, that of *)
(* BMv2 does not) accepts a header whose one's complement sum is all ones. *)
(* The first word is not 0, so that this is divisibility by 65535.         *)
Accepted(tos, check, rest) == (FirstWord(tos) + check + rest) % 65535 = 0

VARIABLES tos, check,
          rest,       \* sum of the other words of the header, modulo 65535
          marked      \* the header was sent back

vars == <<tos, check, rest, marked>>

(* Every checksum occurs: the rest of the header is what makes it right. *)
Init ==
  /\ tos \in TosValues
  /\ check \in Words
  /\ rest = (3 * 65535 - FirstWord(tos) - check) % 65535
  /\ marked = FALSE

Xfrm ==
  /\ ~ marked
  /\ tos' = Retransmitted
  /\ check' = UpdateChecksum(check, FirstWord(tos), FirstWord(Retransmitted))
  /\ marked' = TRUE
  /\ UNCHANGED rest

Next == Xfrm

Spec == Init /\ [][Next]_vars

-----------------------------------------------------------------------------
(* "update ToS and checksum": a router that verifies the header checksum   *)
(* accepts what a server sends back, with one exception.  The single fold  *)
(* leaves a carry for exactly one header checksum, 0x00FF in a header with *)
(* ToS 0; every other header stays acceptable.                             *)
OneBadChecksum ==
  [][Xfrm => (Accepted(tos, check, rest)' <=> ~ (tos = 0 /\ check = 255))]_vars
=============================================================================
