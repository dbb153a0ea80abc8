--------------------------- MODULE AttachmentLife ---------------------------
(***************************************************************************)
(* What the storage broker promises about an attachment, whatever becomes  *)
(* of its requests, its process and its provider: it becomes readable only *)
(* when the provider has the announced ciphertext; it stays so until it is *)
(* closed; and it is forgotten only when the provider has nothing of it    *)
(* and will not come to have anything.                                     *)
(***************************************************************************)
CONSTANT Objects

VARIABLES
    life,     \* absent, open, readable or closing
    content,  \* what the provider has stored: none, the right bytes or wrong ones
    writing   \* whether the provider may still store something

lifeVars == <<life, content, writing>>

LifeInit ==
    /\ life = [o \in Objects |-> "absent"]
    /\ content = [o \in Objects |-> "none"]
    /\ writing = [o \in Objects |-> FALSE]

Open(o) ==
    /\ life[o] = "absent"
    /\ life' = [life EXCEPT ![o] = "open"]
    /\ UNCHANGED <<content, writing>>

Begin(o) ==
    /\ life[o] \in {"open", "closing"}
    /\ writing' = [writing EXCEPT ![o] = TRUE]
    /\ UNCHANGED <<life, content>>

Land(o, bytes) ==
    /\ writing[o]
    /\ content' = [content EXCEPT ![o] = bytes]
    /\ writing' = [writing EXCEPT ![o] = FALSE]
    /\ UNCHANGED life

Publish(o) ==
    /\ life[o] = "open" /\ content[o] = "right" /\ ~writing[o]
    /\ life' = [life EXCEPT ![o] = "readable"]
    /\ UNCHANGED <<content, writing>>

\* Some attachments end and some writes run out of time.
Close(S, T) ==
    /\ \A o \in S : life[o] \in {"open", "readable"}
    /\ life' = [o \in Objects |-> IF o \in S THEN "closing" ELSE life[o]]
    /\ writing' = [o \in Objects |-> writing[o] /\ o \notin T]
    /\ UNCHANGED content

Erase(o) ==
    /\ life[o] = "closing" /\ ~writing[o]
    /\ content' = [content EXCEPT ![o] = "none"]
    /\ UNCHANGED <<life, writing>>

Forget(o) ==
    /\ life[o] = "closing" /\ content[o] = "none" /\ ~writing[o]
    /\ life' = [life EXCEPT ![o] = "absent"]
    /\ UNCHANGED <<content, writing>>

LifeNext ==
    \/ \E o \in Objects : \/ Open(o) \/ Begin(o) \/ Publish(o) \/ Erase(o) \/ Forget(o)
                          \/ \E bytes \in {"right", "wrong"} : Land(o, bytes)
    \/ \E S, T \in SUBSET Objects : Close(S, T)

LifeSpec == LifeInit /\ [][LifeNext]_lifeVars
=============================================================================
