--------------------------- MODULE SessionPromise ---------------------------
(***************************************************************************)
(* What the portal promises about the sessions behind its cookie: a key is *)
(* drawn once, for one person or for nobody; it stays theirs; it is good   *)
(* until the token behind it runs out; and what has run out is not good    *)
(* again, and what is gone does not come back.                             *)
(***************************************************************************)
CONSTANTS Keys, Subjects, None

VARIABLE life  \* key -> its phase, and whose session it is

Undrawn == [phase |-> "undrawn", whose |-> None]
Gone == [phase |-> "gone", whose |-> None]

Drawn == {k \in Keys : life[k] # Undrawn}

\* A session that begins may take the place of one that was there.
Begin(k, whose) ==
  /\ life[k] = Undrawn
  /\ \E replaced \in {life} \cup {[life EXCEPT ![j] = Gone] : j \in Drawn} :
       life' = [replaced EXCEPT ![k] = [phase |-> "good", whose |-> whose]]

RunOut(k) ==
  /\ life[k].phase = "good" /\ life[k].whose # None
  /\ life' = [life EXCEPT ![k].phase = "over"]

End(k) ==
  /\ k \in Drawn
  /\ life' = [life EXCEPT ![k] = Gone]

Init == life = [k \in Keys |-> Undrawn]

\* A step changes something: whatever leaves every session alone stutters.
Next ==
  /\ life' # life
  /\ \E k \in Keys :
       \/ \E whose \in Subjects \cup {None} : Begin(k, whose)
       \/ RunOut(k) \/ End(k)

Spec == Init /\ [][Next]_life
=============================================================================
