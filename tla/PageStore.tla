------------------------------ MODULE PageStore -----------------------------
(***************************************************************************)
(* What a functional cache promises to the simulations: it remembers the   *)
(* pages that were inserted, answers for those and for no others, and      *)
(* gives a page up only for a page of the same colour, when all lines of   *)
(* this colour are in use.  A client that inserts pages that are there     *)
(* uses up a line each time.                                               *)
(***************************************************************************)
EXTENDS Naturals

CONSTANTS Page, NONE       (* a page has a number                          *)

VARIABLES
  resident,                (* the pages that a lookup finds                *)
  used,                    (* how many lines of each colour are in use     *)
  reply,                   (* the last call, its page and its answer       *)
  colours, ways,           (* the dimensions of the store                  *)
  repeats                  (* its client inserts pages that are there      *)

svars == <<resident, used, reply, colours, ways, repeats>>

Colour(p) == p.number % colours

Answer(op, p, hit) == reply' = [op |-> op, page |-> p, hit |-> hit]

SInit ==
  /\ {colours, ways} \subseteq Nat \ {0} /\ repeats \in BOOLEAN
  /\ resident = {}
  /\ used = [k \in 0 .. colours - 1 |-> 0]
  /\ reply = [op |-> "flush", page |-> NONE, hit |-> NONE]

Ask(p) ==
  /\ Answer("access", p, p \in resident)
  /\ UNCHANGED <<resident, used>>

\* There is a line for p.
Enter(p) ==
  /\ used[Colour(p)] < ways
  /\ used' = [used EXCEPT ![Colour(p)] = @ + 1]
  /\ resident' = resident \cup {p}

\* There is none, so that a line of another page is used again: where no page is
\* entered twice, that page was there.
Replace(p) ==
  /\ used[Colour(p)] = ways
  /\ \E v \in {q \in Page : Colour(q) = Colour(p) /\ (repeats \/ q \in resident)} :
       resident' = (resident \ {v}) \cup {p}
  /\ UNCHANGED used

Insert(p) ==
  /\ repeats \/ p \notin resident
  /\ Enter(p) \/ Replace(p)
  /\ Answer("insert", p, NONE)

Drop(p) ==
  /\ p \in resident
  /\ resident' = resident \ {p}
  /\ used' = [used EXCEPT ![Colour(p)] = @ - 1]
  /\ Answer("evict", p, NONE)

Clear ==
  /\ resident' = {}
  /\ used' = [k \in DOMAIN used |-> 0]
  /\ Answer("flush", NONE, NONE)

SNext ==
  /\ Clear \/ \E p \in Page : Ask(p) \/ Insert(p) \/ Drop(p)
  /\ UNCHANGED <<colours, ways, repeats>>

SSpec == SInit /\ [][SNext]_svars

=============================================================================
