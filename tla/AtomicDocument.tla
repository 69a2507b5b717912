------------------------------ MODULE AtomicDocument ------------------------------
(* What a settings document promises, whatever happens to the program: a save takes   *)
(* place or does not, the program always reads what was saved last, and a file that   *)
(* is damaged costs at most the last save.                                            *)
EXTENDS Integers

CONSTANT MayForget   \* whether the program may end while it restores what is left

Foreign == -3    \* a document of another version of the program
Nothing == -1    \* the program is not running

VARIABLES saved,  \* the version of the document a start would read
          prior,  \* the version that is left if the file is damaged
          seen    \* the version the running program works with

documentVars == <<saved, prior, seen>>

Init == saved = 0 /\ prior = 0 /\ seen = Nothing

Open == seen = Nothing /\ saved # Foreign /\ seen' = saved /\ UNCHANGED <<saved, prior>>
Close == seen' = Nothing /\ UNCHANGED <<saved, prior>>

(* Only what the program works with is followed by a newer version. *)
Save == /\ seen # Nothing
        /\ saved' = seen' /\ seen' > seen
        /\ UNCHANGED prior

(* What was saved becomes what a damage leaves: before each save, after a removal. *)
Keep == seen # Nothing /\ prior' = saved /\ UNCHANGED <<saved, seen>>

Damage == saved' = prior /\ UNCHANGED <<prior, seen>>
Replace == seen = Nothing /\ saved' = Foreign /\ UNCHANGED <<prior, seen>>

(* The one exception: a start that is cut short, and the next one reads nothing. *)
Forget == MayForget /\ seen = Nothing /\ saved' = 0 /\ UNCHANGED <<prior, seen>>

Next == Open \/ Close \/ Save \/ Keep \/ Damage \/ Replace \/ Forget

Spec == Init /\ [][Next]_documentVars
===================================================================================
