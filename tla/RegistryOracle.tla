--------------------------- MODULE RegistryOracle ---------------------------
(***************************************************************************)
(* What a look-up of a participant promises whoever asks, however many     *)
(* ask at once and however their answers cross: one answer, and one that   *)
(* the registry of the asker's own authority gave, or would have given, at *)
(* most a window ago - a long window for a self-description, a short one   *)
(* for "no such participant".  ParticipantRegistry implements it.          *)
(***************************************************************************)
EXTENDS Naturals

CONSTANTS
  Askers,       (* the look-ups                                             *)
  Keys,         (* what may be asked: an authority and a DID                *)
  URLs,         (* self-descriptions                                        *)
  Unknown,      (* the answer "no such participant"                         *)
  Windows       (* per answer: for how long it may be given after it held   *)

VARIABLES
  now,
  ask,          (* what each asker asks                                     *)
  listed,       (* per key: the self-descriptions registered                *)
  past,         (* answers that no longer hold, and until when they did     *)
  told          (* what each asker was told                                 *)

vars == <<now, ask, listed, past, told>>

Answers(k) == IF listed[k] = {} THEN {Unknown} ELSE listed[k]

(* The answer v held for k at some moment whose window is still open.       *)
Recent(k, v) ==
  \/ v \in Answers(k)
  \/ \E p \in past : p.key = k /\ p.answer = v /\ now < p.until + Windows[v]

Init ==
  /\ now = 0
  /\ ask \in [Askers -> Keys]
  /\ listed \in [Keys -> SUBSET URLs]
  /\ past = {}
  /\ told = [c \in Askers |-> "none"]

Tell(c) ==
  /\ told[c] = "none"
  /\ \E v \in URLs \cup {Unknown, "rejected", "failed"} :
       /\ v \in URLs \cup {Unknown} => Recent(ask[c], v)
       /\ told' = [told EXCEPT ![c] = v]
  /\ UNCHANGED <<now, ask, listed, past>>

(* A registry changes: what it answered for k is now a thing of the past.   *)
Change(k, urls) ==
  /\ urls # listed[k]
  /\ past' = past \cup {[key |-> k, answer |-> v, until |-> now] : v \in Answers(k)}
  /\ listed' = [listed EXCEPT ![k] = urls]
  /\ UNCHANGED <<now, ask, told>>

Tick == now' = now + 1 /\ UNCHANGED <<ask, listed, past, told>>

Next ==
  \/ \E c \in Askers : Tell(c)
  \/ \E k \in Keys, urls \in SUBSET URLs : Change(k, urls)
  \/ Tick

Spec == Init /\ [][Next]_vars
=============================================================================
