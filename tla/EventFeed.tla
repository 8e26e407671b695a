------------------------------ MODULE EventFeed ------------------------------
(***************************************************************************)
(* What resuming a turn's event stream promises: every subscriber reads    *)
(* the turn's events from the first on, in order, without gap or           *)
(* repetition, however often it comes back.                                *)
(***************************************************************************)
EXTENDS Naturals, Sequences

CONSTANT Reader

VARIABLES feed,   \* events of the turn so far
          closed, \* the last of them is turn.done
          seen    \* what each reader was given

feedVars == <<feed, closed, seen>>

FeedInit == feed = 0 /\ closed = FALSE /\ seen = [c \in Reader |-> <<>>]

Emit == /\ ~closed
        /\ feed' = feed + 1
        /\ closed' \in BOOLEAN
        /\ UNCHANGED seen

Give(c) == /\ Len(seen[c]) < feed
           /\ seen' = [seen EXCEPT ![c] = Append(@, Len(@) + 1)]
           /\ UNCHANGED <<feed, closed>>

FeedNext == Emit \/ \E c \in Reader : Give(c)

FeedSpec == FeedInit /\ [][FeedNext]_feedVars
==============================================================================
