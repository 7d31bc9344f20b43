--------------------------------- MODULE Items ---------------------------------
(***************************************************************************)
(* The items of the parse graphs (item.rs) and the tables the database     *)
(* computes over the rules (process_data of parser_db.rs).  An item stands *)
(* at position d of rule r; it remembers the item its closure came from,   *)
(* what it resolves to (its origin), the state it started in, and how many *)
(* gotos lie on the stack above that state.                                *)
(***************************************************************************)
EXTENDS Integers, Sequences, FiniteSets, FiniteSetsExt, TLC

CONSTANTS
  Rules,     \* rule -> [nt, body, skip]; a symbol of a body is [kind, val, sp, tp],
             \* with its precedence in parsers and in scanners
  TokenNT    \* token -> the nonterminal that scans it

\* Every symbol of a parser has a precedence as a token, which skipped ones have not.
ASSUME RulesAssumption ==
  \A r \in DOMAIN Rules :
    /\ Rules[r].body # <<>>
    /\ \A d \in DOMAIN Rules[r].body :
         Rules[r].body[d].kind = "token" => Rules[r].body[d].tp > 0

---------------------------------------------------------------------------
(* Symbols, origins and the states an item may come from.                  *)

DefaultSym == [kind |-> "default", val |-> 0]
NoOrigin   == [none |-> 0]
Goal(nt)   == [goal |-> nt]
TerminalGoal(t, p) == [token |-> t, prec |-> p]
OosClosure == [oosclosure |-> 0]
GoalCompleteOOS == [goaloos |-> 0]

Invalid == -1   \* StateId::default: yet to be given
Sled    == -2   \* about to leave the scope of the graph
Outside == -3   \* in a closure outside the graph, whichever

IsOos(i) == i.st \in {Sled, Outside}
OutOfScope(i) == i.org \in {OosClosure, GoalCompleteOOS}

Item(r, d) ==
  [r |-> r, d |-> d, from |-> <<r, d>>, org |-> NoOrigin, st |-> Invalid, dist |-> 0, fg |-> FALSE]

Index(i) == <<i.r, i.d>>
NT(i)    == Rules[i.r].nt
IsInitial(i)     == i.d = 0
IsComplete(i)    == i.d = Len(Rules[i.r].body)
IsPenultimate(i) == i.d = Len(Rules[i.r].body) - 1
Increment(i)     == [i EXCEPT !.d = @ + 1]
TryIncrement(i)  == IF IsComplete(i) THEN i ELSE Increment(i)
ToComplete(i)    == [i EXCEPT !.d = Len(Rules[i.r].body)]
Align(i, other)  == [other EXCEPT !.r = i.r, !.d = i.d]
IsSuccessorOf(i, k) == i.from \in {Index(k), k.from}

\* Items are the same whatever the gotos above them (PartialEq).
Identity(i) == [i EXCEPT !.dist = 0, !.fg = FALSE]

SymRef(i) == Rules[i.r].body[i.d + 1]
SymOf(i)  == IF IsComplete(i) THEN DefaultSym ELSE [kind |-> SymRef(i).kind, val |-> SymRef(i).val]

\* The nonterminal at an item's position, or 0.  (A token of a scanner's rule
\* stands there for its nonterminal.)
NTAt(i) == IF SymOf(i).kind = "nonterm" THEN SymOf(i).val ELSE 0
IsTerm(i) == ~ IsComplete(i) /\ NTAt(i) = 0

\* A completed item has the precedence of its last symbol, as a token.
TokenPrec(i)  == IF IsComplete(i) THEN Rules[i.r].body[i.d].tp ELSE SymRef(i).tp
SymbolPrec(i) == IF IsComplete(i) THEN Rules[i.r].body[i.d].tp ELSE SymRef(i).sp
Precedence(i, scan) == IF scan THEN TokenPrec(i) ELSE SymbolPrec(i)

---------------------------------------------------------------------------
(* The tables of the database, worked out before any graph is built.       *)

VARIABLE db

NonTerms == {Rules[r].nt : r \in DOMAIN Rules}
AllItems == UNION {{Item(r, d) : d \in 0 .. Len(Rules[r].body)} : r \in DOMAIN Rules}

\* The nonterminals the rules of those in S begin with, directly or not.
RECURSIVE LeftCorners(_)
LeftCorners(S) ==
  LET next == S \cup {Rules[r].body[1].val :
                        r \in {r \in DOMAIN Rules : Rules[r].nt \in S /\ Rules[r].body[1].kind = "nonterm"}}
  IN  IF next = S THEN S ELSE LeftCorners(next)

\* Those that end in one of those in S, directly or not.
RECURSIVE Completing(_)
Completing(S) ==
  LET next == S \cup {NT(i) : i \in {i \in AllItems : IsPenultimate(i) /\ NTAt(i) \in S}}
  IN  IF next = S THEN S ELSE Completing(next)

\* Where nt stands: all that it begins with (item_closures), the items that shift over
\* it or over what such an item completes (follow_items), and whether it begins with
\* itself (recursion types).
Entry(nt) ==
  LET corners == LeftCorners({nt})
      over    == Completing({nt})
      starts  == {i \in AllItems : IsInitial(i) /\ NT(i) = nt}
  IN  [starts  |-> starts,
       closure |-> {i \in AllItems : IsInitial(i) /\ NT(i) \in corners},
       follow  |-> {i \in AllItems : NTAt(i) \in over},
       leftRecursive |-> \E i \in starts : NTAt(i) # 0 /\ nt \in LeftCorners({NTAt(i)})]

Database == [nt \in NonTerms |-> Entry(nt)]

Closure(i) == IF NTAt(i) = 0 THEN {} ELSE db[NTAt(i)].closure \ {Item(i.r, i.d)}

ClosureIter(i) == {i} \cup {[j EXCEPT !.from = Index(i)] : j \in Closure(i)}

ClosureAlign(i, other) == {i} \cup {Align(j, other) : j \in Closure(i)}

ClosureLaneSplit(i, other) ==
  {i} \cup {[Align(j, other) EXCEPT !.from = Index(i)] : j \in Closure(i)}

LeftRecursive(nt) == db[nt].leftRecursive
RuleIsLeftRecursive(i) == NTAt([i EXCEPT !.d = 0]) = NT(i)

Skipped(i) == IF IsComplete(i) THEN {} ELSE Rules[i.r].skip
=============================================================================
