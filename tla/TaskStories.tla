---------------------------- MODULE TaskStories ----------------------------
(***************************************************************************)
(* What somebody who asks for (un)installs and listens to the bus may rely *)
(* on, whatever the tasks do inside: each accepted request is a story that *)
(* opens once and closes once, with one verdict or with none; the stories  *)
(* of a plugin's dependencies open one at a time inside the plugin's own,  *)
(* which closes after them.                                                *)
(***************************************************************************)
CONSTANTS Contexts, Nothing

VARIABLES story,  (* none, open, or how it closed                          *)
          under   (* the story each was opened in                          *)

storyVars == <<story, under>>

Verdicts == {"completed", "error", "lost"}

Init ==
    /\ story = [c \in Contexts |-> "none"]
    /\ under = [c \in Contexts |-> Nothing]

NothingOpenUnder(c) == \A d \in Contexts : under[d] = c => story[d] # "open"

Open(c, parent) ==
    /\ story[c] = "none"
    /\ parent # Nothing => story[parent] = "open" /\ NothingOpenUnder(parent)
    /\ story' = [story EXCEPT ![c] = "open"]
    /\ under' = [under EXCEPT ![c] = parent]

Close(c, verdict) ==
    /\ story[c] = "open"
    /\ NothingOpenUnder(c)
    /\ story' = [story EXCEPT ![c] = verdict]
    /\ UNCHANGED under

Next ==
    \E c \in Contexts :
        \/ \E parent \in Contexts \union {Nothing} : Open(c, parent)
        \/ \E verdict \in Verdicts : Close(c, verdict)

Spec == Init /\ [][Next]_storyVars

=============================================================================
