--------------------------- MODULE MCResponsePhase ---------------------------
(* Two owners, one resource, two purposes; an authority that holds any of  *)
(* four consents, of which only two were ever given to this consumer and   *)
(* still stand; replies of up to three claims, with repeated, unnamed and  *)
(* purposeless ones among them.                                            *)
EXTENDS ResponsePhase

CONSTANTS alice, bob, me, other, location, billing, research, unset

Record(owner, status, recipients, purposes) ==
  [owner |-> owner, status |-> status, named |-> {}, recipients |-> recipients,
   data |-> {location}, purposes |-> purposes]

MCAuthorities ==
  SUBSET {Record(alice, "granted", <<me, other>>, {billing}),
          Record(bob, "granted", <<me>>, {billing, research}),
          Record(alice, "granted", <<other, me>>, {billing, research}),
          [Record(alice, "revoked", <<>>, {billing, research}) EXCEPT !.named = {me}]}

Claim(owner, resource, purpose) ==
  [owner |-> owner, resource |-> resource, purpose |-> purpose]

MCReplies ==
  LET some == {Claim(alice, location, billing), Claim(alice, location, research),
               Claim(alice, location, unset), Claim(bob, location, research),
               Claim(bob, unset, unset), Claim(unset, location, billing)}
  IN UNION {[1..n -> some] : n \in 0..3}
=============================================================================
