------------------------------ MODULE ClaimPath ------------------------------
(***************************************************************************)
(* The consuming participant in a token's claims: consumerFromClaims and   *)
(* claimKeysToDecode (src/internal/plugin/consent.go) and DecodeClaims     *)
(* (src/internal/jwt/extractor.go).                                        *)
(*                                                                         *)
(* A JSON value is [kind |-> "object", members |-> function from names],   *)
(* [kind |-> "array", items |-> sequence], [kind |-> "string", value |->   *)
(* v] or of another kind; claims are an object's members.  A path is a     *)
(* sequence of segments [name, indices, wellFormed]: what parseClaimSegment*)
(* makes of each, wellFormed being FALSE where it returns an error.        *)
(***************************************************************************)
EXTENDS Naturals, Sequences, SequencesExt, Functions

CONSTANT NoConsumer   (* consumerFromClaims' error                          *)

Absent == [kind |-> "absent"]
Object(members) == [kind |-> "object", members |-> members]

Element(node, index) ==
  IF node.kind = "array" /\ index \in 0..(Len(node.items) - 1)
  THEN node.items[index + 1] ELSE Absent

(* Variant: only objects are descended into.                                *)
descendIntoObjectOnly(node) == node

(* A segment that lands on an array means its first element.                *)
descendIntoObject(node) == IF node.kind = "array" THEN Element(node, 0) ELSE node

Member(node, name) ==
  LET object == descendIntoObject(node)
  IN IF object.kind = "object" /\ name \in DOMAIN object.members
     THEN object.members[name] ELSE Absent

(* The element that the indices lead to, each within the one before.        *)
ElementAt(node, indices) ==
  LET element[n \in 0..Len(indices)] ==
        IF n = 0 THEN node ELSE Element(element[n - 1], indices[n])
  IN element[Len(indices)]

(* One segment of the path: its name, unless it has none, then its indices. *)
Descend(node, segment) ==
  IF ~segment.wellFormed THEN Absent
  ELSE ElementAt(IF segment.name = "" THEN node ELSE Member(node, segment.name),
                 segment.indices)

(* The walk: current[n] is where the first n segments lead.                 *)
Walk(node, path) ==
  LET current[n \in 0..Len(path)] ==
        IF n = 0 THEN node ELSE Descend(current[n - 1], path[n])
  IN current[Len(path)]

consumerFromClaims(claims, path) ==
  LET leaf == Walk(Object(claims), path)
  IN IF path # <<>> /\ DOMAIN claims # {} /\ leaf.kind = "string" /\ leaf.value # ""
     THEN leaf.value ELSE NoConsumer
-----------------------------------------------------------------------------
(* The first claim name of the path.                                        *)
claimPathRoot(path) == Head(path).name

(* Variant: the claims to forward are decoded, and no others.               *)
claimKeysToForward(forward, path) == forward

(* The claims to forward, if any are named, and the consumer's root.        *)
claimKeysToDecode(forward, path) ==
  IF forward = <<>> \/ path = <<>> \/ Contains(forward, claimPathRoot(path))
  THEN forward
  ELSE Append(forward, claimPathRoot(path))

(* No key at all means all claims.                                          *)
DecodeClaims(claims, keys) ==
  IF keys = <<>> THEN claims ELSE Restrict(claims, DOMAIN claims \cap ToSet(keys))
=============================================================================
