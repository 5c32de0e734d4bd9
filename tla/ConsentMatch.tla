---------------------------- MODULE ConsentMatch ----------------------------
(***************************************************************************)
(* Which consent authorises which claim: the resolver's claims collapsed   *)
(* to the ones checked (distinctClaims, checkPurposeScoping,               *)
(* src/internal/plugin/consent.go) and the match of a consent record       *)
(* (hasGrantedConsent, src/internal/consent/client.go).                    *)
(*                                                                         *)
(* A claim is [owner, resource, purpose]; Unset is the empty string.       *)
(* A record is [owner, status, named, recipients, data, purposes]: whose   *)
(* consent it is, the participants its consumer fields name, its           *)
(* recipients in order, and the resources and purposes it lists.           *)
(***************************************************************************)
EXTENDS Naturals, Sequences, SequencesExt

CONSTANT Unset

(* Variant: claims are told apart by their owner alone.                     *)
SameOwner(c, d) == c.owner = d.owner

SameKey(c, d) == c.owner = d.owner /\ c.resource = d.resource

(* A claim is kept unless one with its owner and resource already is.       *)
Keep(kept, claim) ==
  IF \E i \in DOMAIN kept : SameKey(kept[i], claim) THEN kept ELSE Append(kept, claim)

(* One claim per (owner, resource), the first of each, in the resolver's    *)
(* order: kept[n] is what the loop has kept after n claims.                 *)
distinctClaims(claims) ==
  LET kept[n \in 0..Len(claims)] ==
        IF n = 0 THEN <<>> ELSE Keep(kept[n - 1], claims[n])
  IN kept[Len(claims)]

(* distinctClaims' error: the resolver did not say whose the data is.       *)
NamesNoOwner(claims) == \E i \in DOMAIN claims : claims[i].owner = Unset

(* What checkPurposeScoping refuses when require_purpose is set.            *)
NamesNoPurpose(claims) == \E i \in DOMAIN claims : claims[i].purpose = Unset

(* Variant: any recipient is taken for the consumer.                        *)
grantedToAny(record, consumer) ==
  consumer \in record.named \cup ToSet(record.recipients)

(* By name, or as the first recipient: the one the authority itself takes   *)
(* for the consumer.                                                        *)
grantedTo(record, consumer) ==
  \/ consumer \in record.named
  \/ record.recipients # <<>> /\ Head(record.recipients) = consumer

coversPurpose(record, purpose) == purpose \in {Unset} \cup record.purposes

coversResource(record, resource) == resource \in {Unset} \cup record.data

(* check: an owner with no user identifier has no records to match.         *)
hasGrantedConsent(records, claim, consumer) ==
  \E record \in records :
    /\ record.owner = claim.owner
    /\ record.status = "granted"
    /\ grantedTo(record, consumer)
    /\ coversPurpose(record, claim.purpose)
    /\ coversResource(record, claim.resource)
=============================================================================
