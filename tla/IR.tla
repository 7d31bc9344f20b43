---------------------------------- MODULE IR ----------------------------------
(***************************************************************************)
(* The intermediate language between the parse graphs and the parsers      *)
(* (ir.radlr, parse_state.rs) and a machine that runs it: the interpreter  *)
(* of parser_new.rs seen at the level of statements, before they are laid  *)
(* out as bytes.  The optimiser is compared with it (module Optimize), and *)
(* so is the bytecode (module Kernel).                                     *)
(*                                                                         *)
(* A statement runs its transitive part, its non-branching parts, its pops *)
(* and its branch, in this order; without a branch it passes.  Line        *)
(* numbers are left out.                                                   *)
(***************************************************************************)
EXTENDS Naturals, Sequences, SequencesExt

CONSTANT ClassOf   \* the class of a codepoint (the table CHAR_LU_TABLE)

---------------------------------------------------------------------------
(* Statements.                                                             *)

None   == "none"
NoBr   == [k |-> "none"]
Pass   == [k |-> "pass"]
Fail   == [k |-> "fail"]
Accept == [k |-> "accept"]

\* Pushes, then a goto or a fork (parser::Gotos).
Gotos(ps, g) == [k |-> "gotos", pushes |-> ps, goto |-> g, fork |-> <<>>]
Goto(g)      == Gotos(<<>>, g)
Fork(paths)  == [k |-> "gotos", pushes |-> <<>>, goto |-> None, fork |-> paths]

\* A match block (parser::Matches); a case without values is the default.
Match(mode, scanner, cases) ==
  [k |-> "match", mode |-> mode, scanner |-> scanner, cases |-> cases]
Case(vs, s) == [vals |-> vs, st |-> s]
Default(s)  == [vals |-> <<>>, st |-> s]
IsDefault(m) == m.vals = <<>>

Stmt(tr, nb, pop, br) == [tr |-> tr, nb |-> nb, pop |-> pop, br |-> br]
Just(br)     == Stmt(None, <<>>, 0, br)
SetTok(t)    == [op |-> "set-tok", id |-> t]
Reduce(nt, rule, n) == [op |-> "reduce", nt |-> nt, rule |-> rule, n |-> n]

IsGotos(s) == s.br.k = "gotos"
IsMatch(s) == s.br.k = "match"

\* Every name in a statement, whatever stands around it.
RECURSIVE Mentioned(_)
Mentioned(s) ==
  (IF IsGotos(s) THEN ToSet(s.br.pushes) \cup ToSet(s.br.fork) \cup {s.br.goto}
   ELSE IF IsMatch(s) THEN {s.br.scanner} \cup UNION {Mentioned(m.st) : m \in ToSet(s.br.cases)}
   ELSE {}) \ {None}

---------------------------------------------------------------------------
(* The parser context: the pointers into the input, the current token and  *)
(* the stack of states (context.rs), and what each instruction does to it. *)

Start(stack) ==
  [stack |-> stack, anchor |-> 0, sym |-> 0, input |-> 0, tok |-> 0, len |-> 0,
   blen |-> 0, nt |-> 0]

ByteAt(text, i) == IF i < Len(text) THEN text[i + 1] ELSE 0

\* ParserInput::codepoint, for the headers of one and of two bytes.
CodepointAt(text, i) ==
  LET b == ByteAt(text, i) IN
  IF b < 128 THEN b ELSE (b % 32) * 64 + (ByteAt(text, i + 1) % 64)

Utf8Len(cp) == IF cp = 0 THEN 0 ELSE IF cp < 128 THEN 1 ELSE 2

MoveTo(c, p) == [c EXCEPT !.sym = p, !.input = p, !.tok = 0]

ShiftToken(c) == [MoveTo(c, c.sym + c.len) EXCEPT !.anchor = c.sym + c.len, !.len = 0]
PeekToken(c)  == [MoveTo(c, c.sym + c.len) EXCEPT !.len = 0]
SkipToken(c)  == MoveTo(c, c.sym + c.len)
PeekReset(c)  == [MoveTo(c, c.anchor) EXCEPT !.len = 0, !.blen = 0]
ShiftChar(c)  == [c EXCEPT !.input = c.input + c.blen, !.blen = 0]
AssignToken(c, t) == [c EXCEPT !.tok = t, !.len = c.input - c.sym]

\* The input a match reads, and the lengths reading it leaves (get_input_value,
\* all but tokens).
InputValue(mode, text, c) ==
  CASE mode = "_NONTERMINAL_" -> c.nt
    [] mode = "_EOF_" -> IF c.input >= Len(text) THEN 1 ELSE 0
    [] mode \in {"_BYTE_", "_BYTE_SCANLESS_"} -> ByteAt(text, c.input)
    [] mode \in {"_CODEPOINT_", "_CODEPOINT_SCANLESS_"} -> CodepointAt(text, c.input)
    [] mode \in {"_CLASS_", "_CLASS_SCANLESS_"} ->
         LET cp == CodepointAt(text, c.input) IN IF cp = 0 THEN 0 ELSE ClassOf[cp]

ReadInput(mode, text, c) ==
  LET byteLen == IF ByteAt(text, c.input) = 0 THEN 0 ELSE 1
      cpLen   == Utf8Len(CodepointAt(text, c.input))
  IN  CASE mode = "_BYTE_" -> [c EXCEPT !.blen = byteLen]
        [] mode = "_BYTE_SCANLESS_" -> [c EXCEPT !.len = byteLen]
        [] mode \in {"_CODEPOINT_", "_CLASS_"} -> [c EXCEPT !.blen = cpLen]
        [] mode \in {"_CODEPOINT_SCANLESS_", "_CLASS_SCANLESS_"} -> [c EXCEPT !.len = cpLen]
        [] OTHER -> c

\* A byte sequence matches when every byte of it is next in the input.
BytesMatch(vs, text, c) ==
  \A i \in 1..Len(vs) : ByteAt(text, c.input + i - 1) = vs[i] % 256

PopState(c) == [c EXCEPT !.stack = Front(@)]

---------------------------------------------------------------------------
(* The machine.  Its state is the context, whose stack holds statements,   *)
(* the statement it is at, the statement a skip returns to, the saved      *)
(* match while a scanner runs, the actions yielded so far and how it       *)
(* ended.                                                                  *)

Machine(c, st) ==
  [c |-> c, todo |-> st, base |-> st, caller |-> <<>>, acts |-> <<>>, end |-> "no"]

Yield(m, act, c, rest) ==
  [m EXCEPT !.acts = Append(@, act), !.c = c, !.todo = rest, !.base = rest]

Stop(m, how) == [m EXCEPT !.end = how, !.acts = Append(@, [a |-> how, at |-> m.c.sym])]

\* A completed state resumes the one below it; a scanner has none below it, and
\* leaves the match that called it with the token it assigned.
Complete(m) ==
  IF m.caller # <<>>
  THEN [m EXCEPT !.caller = <<>>, !.c.input = m.c.sym,
                 !.todo = m.caller[1], !.base = m.caller[2]]
  ELSE IF m.c.stack = <<>> THEN Stop(m, "error")
  ELSE LET top == Last(m.c.stack)
       IN  [m EXCEPT !.c = PopState(@), !.todo = top, !.base = top]

FailState(m) == IF m.caller # <<>> THEN Complete(m) ELSE Stop(m, "error")

Transitive(m) ==
  LET c == m.c  rest == [m.todo EXCEPT !.tr = None]
      len == c.len
  IN  CASE m.todo.tr = "shift tok" ->
             Yield(m, [a |-> "shift", from |-> c.sym, len |-> len, tok |-> c.tok], ShiftToken(c), rest)
        [] m.todo.tr = "shift-skip tok" ->
             [m EXCEPT !.acts = Append(@, [a |-> "skip", from |-> c.sym, len |-> len, tok |-> c.tok]),
                       !.c = SkipToken(c), !.todo = m.base]
        [] m.todo.tr = "peek-skip tok" -> [m EXCEPT !.c = SkipToken(c), !.todo = m.base]
        [] m.todo.tr = "peek tok"  -> [m EXCEPT !.c = PeekToken(c), !.todo = rest]
        [] m.todo.tr = "reset tok" -> [m EXCEPT !.c = PeekReset(c), !.todo = rest]
        [] m.todo.tr = "shift char" -> [m EXCEPT !.c = ShiftChar(c), !.todo = rest]

NonBranch(m) ==
  LET op == Head(m.todo.nb)  rest == [m.todo EXCEPT !.nb = Tail(@)]
  IN  IF op.op = "set-tok"
      THEN [m EXCEPT !.c = AssignToken(@, op.id), !.todo = rest]
      ELSE Yield(m, [a |-> "reduce", nt |-> op.nt, rule |-> op.rule, n |-> op.n],
                 [m.c EXCEPT !.nt = op.nt], rest)

\* The statement of the case that the value selects; the state fails without one.
Select(m, c, v) ==
  LET cases == m.todo.br.cases
      hits  == {i \in DOMAIN cases : \E j \in DOMAIN cases[i].vals : cases[i].vals[j] = v}
      defs  == {i \in DOMAIN cases : IsDefault(cases[i])}
      i     == CHOOSE i \in (IF hits # {} THEN hits ELSE defs) : TRUE
  IN  IF hits \cup defs = {} THEN FailState([m EXCEPT !.c = c])
      ELSE [m EXCEPT !.c = c, !.todo = cases[i].st]

\* A match without values reads a codepoint, and fails at the end of the input.
DefaultOnly(br) == \A i \in DOMAIN br.cases : IsDefault(br.cases[i])

ByteSequence(m, text) ==
  LET cases == m.todo.br.cases
      seq   == CHOOSE i \in DOMAIN cases : ~ IsDefault(cases[i])
      defs  == {i \in DOMAIN cases : IsDefault(cases[i])}
      i     == CHOOSE i \in defs : TRUE
  IN  IF BytesMatch(cases[seq].vals, text, m.c)
      THEN [m EXCEPT !.c.blen = Len(cases[seq].vals), !.todo = cases[seq].st]
      ELSE IF defs = {} THEN FailState(m) ELSE [m EXCEPT !.todo = cases[i].st]

Scan(m, prog) ==
  LET br == m.todo.br
      sc == prog[br.scanner].st
  IN  [m EXCEPT !.c.tok = 0, !.c.input = m.c.sym, !.todo = sc, !.base = sc,
                !.caller = <<[m.todo EXCEPT !.br.mode = "token"], m.base>>]

Branch(m, prog, text) ==
  LET br == m.todo.br IN
  CASE br.k \in {"none", "pass"} -> Complete(m)
    [] br.k = "fail"   -> FailState(m)
    [] br.k = "accept" -> Stop(m, "accept")
    [] br.k = "gotos" /\ br.fork # <<>> -> [m EXCEPT !.end = "fork"]
    [] br.k = "gotos" /\ br.fork = <<>> ->
         LET pushed == [m EXCEPT !.c.stack = @ \o [i \in DOMAIN br.pushes |-> prog[br.pushes[i]].st]]
         IN  IF br.goto = None THEN Complete(pushed)
             ELSE [pushed EXCEPT !.todo = prog[br.goto].st, !.base = prog[br.goto].st]
    [] br.k = "match" /\ DefaultOnly(br) ->
         IF CodepointAt(text, m.c.input) = 0 THEN FailState([m EXCEPT !.c = ReadInput("_CODEPOINT_", text, @)])
         ELSE Select(m, ReadInput("_CODEPOINT_", text, m.c), 0)
    [] br.k = "match" /\ br.mode = "_BYTE_SEQUENCE_" -> ByteSequence(m, text)
    [] br.k = "match" /\ br.mode = "_TOKEN_" -> Scan(m, prog)
    [] br.k = "match" /\ br.mode = "token" -> Select(m, m.c, m.c.tok)
    [] OTHER -> Select(m, ReadInput(br.mode, text, m.c), InputValue(br.mode, text, m.c))

Step(m, prog, text) ==
  CASE m.todo.tr # None  -> Transitive(m)
    [] m.todo.tr = None /\ m.todo.nb # <<>> -> NonBranch(m)
    [] m.todo.tr = None /\ m.todo.nb = <<>> /\ m.todo.pop > 0 ->
         [m EXCEPT !.c.stack = SubSeq(@, 1, Len(@) - m.todo.pop), !.todo.pop = 0]
    [] OTHER -> Branch(m, prog, text)

---------------------------------------------------------------------------
(* A whole parse: the actions a parser yields for a text.  A fork ends in  *)
(* the parses of its paths, each of which starts with the path on top of   *)
(* the stack (fork.rs); more than fuel steps, or half of it in a path, are *)
(* an endless parse.                                                       *)

\* Up to n steps, in halves, which keeps the recursion of TLC low.
RECURSIVE RunFor(_, _, _, _)
RunFor(m, prog, text, n) ==
  CASE n = 0 \/ m.end # "no" -> m
    [] n = 1 /\ m.end = "no" -> Step(m, prog, text)
    [] OTHER -> CHOOSE r \in {RunFor(h, prog, text, n - n \div 2) : h \in {RunFor(m, prog, text, n \div 2)}} : TRUE

\* The actions of a machine that has taken its steps.
RECURSIVE ActionsOf(_, _, _, _)
ActionsOf(m, prog, text, fuel) ==
  CASE m.end = "no" -> Append(m.acts, [a |-> "endless"])
    [] m.end = "fork" ->
         LET path(to) == Machine(m.c, prog[to].st)
             parses(to) == {ActionsOf(n, prog, text, fuel \div 2) : n \in {RunFor(path(to), prog, text, fuel \div 2)}}
         IN  Append(m.acts, [a |-> "fork",
                             paths |-> [i \in DOMAIN m.todo.br.fork |-> CHOOSE acts \in parses(m.todo.br.fork[i]) : TRUE]])
    [] OTHER -> m.acts

Parse(prog, entry, text, fuel) ==
  CHOOSE acts \in {ActionsOf(m, prog, text, fuel) :
                    m \in {RunFor(Machine(Start(<<>>), prog[entry].st), prog, text, fuel)}} : TRUE
=============================================================================
