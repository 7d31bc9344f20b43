-------------------------------- MODULE Kernel --------------------------------
(***************************************************************************)
(* The interpreter of the bytecode (parser_new.rs): it fetches the byte at *)
(* its address, decodes the operands behind it and carries the instruction *)
(* out on the context; the stack of the context holds addresses.           *)
(*                                                                         *)
(* Instructions that build_bytecode.rs never writes are left out: the      *)
(* scanless shifts, peeks and skips, VectorBranch and                      *)
(* PushExceptionHandler.                                                   *)
(***************************************************************************)
EXTENDS Bytecode

\* The dispatch loop between two instructions: the context, the address of the
\* instruction, that of the block a skip goes back to, while a scanner runs the
\* match that called it (<<address, block>>), whether the match at pc has its
\* token, the actions yielded so far and how the parse ended.
Processor(c, start) ==
  [c |-> c, pc |-> start, base |-> start, caller |-> <<>>, scanned |-> FALSE,
   acts |-> <<>>, end |-> "no"]

\* ByteCodeParserNew::init: below the entry state is the address 0.
Boot(start) == Processor(Start(<<0>>), start)

\* The step after an instruction that yields nothing, and after one that does: the
\* state it leaves on the stack is the block of the next instruction.
At(m, c, a) == [m EXCEPT !.c = c, !.pc = a]

Yielded(m, act, c, a) == [At(m, c, a) EXCEPT !.base = a, !.acts = Append(@, act)]

TokenAct(name, c) == [a |-> name, from |-> c.sym, len |-> c.len, tok |-> c.tok]

\* CompleteState: the state below goes on; the address 0 is the end of the input
\* for a scanner, and an error for a parser.
Popped(m) ==
  IF m.caller # <<>>
  THEN [m EXCEPT !.caller = <<>>, !.scanned = TRUE, !.c.input = m.c.sym,
                 !.pc = m.caller[1], !.base = m.caller[2]]
  ELSE LET top == Last(m.c.stack)
       IN  IF top = 0 THEN Stop(m, "error")
           ELSE [m EXCEPT !.c = PopState(@), !.pc = top, !.base = top]

Failed(m) == IF m.caller # <<>> THEN Popped(m) ELSE Stop(m, "error")

\* Mutant: the chain is not followed.
CellInSlot(bc, table, v, slot) ==
  LET low == U16At(bc, table + 4 * slot)  high == U16At(bc, table + 4 * slot + 2)
  IN  IF low % 2048 = v THEN <<(low \div 2048) + 32 * (high % 64)>> ELSE <<>>

\* The cell chain of a HashBranch, from the slot of the value's low bits.
RECURSIVE CellOf(_, _, _, _)
CellOf(bc, table, v, slot) ==
  LET low  == U16At(bc, table + 4 * slot)
      high == U16At(bc, table + 4 * slot + 2)
      next == high \div 64
  IN  CASE low % 2048 = v -> <<(low \div 2048) + 32 * (high % 64)>>
        [] low % 2048 # v /\ next # 512 -> CellOf(bc, table, v, slot + next - 512)
        [] OTHER -> <<>>

HashBranch(m, bc, text) ==
  LET i     == m.pc
      mode  == InputTypes[ByteOf(bc, i + 1) + 1]
      token == mode = "_TOKEN_"
      v     == IF token THEN m.c.tok ELSE InputValue(mode, text, m.c)
      c     == IF token THEN m.c ELSE ReadInput(mode, text, m.c)
      cell  == CellOf(bc, i + 18, v, v % (2^U32At(bc, i + 14)))
      scan  == U32At(bc, i + 6)
  IN  IF token /\ ~ m.scanned
      THEN [m EXCEPT !.c.tok = 0, !.c.input = m.c.sym, !.pc = scan, !.base = scan,
                     !.caller = <<i, m.base>>]
      ELSE [At(m, c, i + (IF cell # <<>> THEN cell[1] ELSE U32At(bc, i + 2)))
              EXCEPT !.scanned = FALSE]

ReadCodepoint(m, text) ==
  LET c == ReadInput("_CODEPOINT_", text, m.c) IN
  IF CodepointAt(text, c.input) = 0 THEN Failed([m EXCEPT !.c = c]) ELSE At(m, c, m.pc + 1)

MatchBytes(m, bc, text) ==
  LET n == U16At(bc, m.pc + 1)
      default == U32At(bc, m.pc + 3)
  IN  IF BytesMatch(SubSeq(bc, m.pc + 8, m.pc + 7 + n), text, m.c)
      THEN At(m, [m.c EXCEPT !.blen = n], m.pc + 7 + n)
      ELSE IF default > 0 THEN At(m, m.c, m.pc + default) ELSE Failed(m)

\* dispatch.
Execute(m, bc, text) ==
  LET op   == ByteOf(bc, m.pc)
      next == m.pc + FixedLength(op)
      u32  == U32At(bc, m.pc + 2)   \* of a Goto and a PushGoto
      c    == m.c
  IN  CASE op = Op.shiftToken -> Yielded(m, TokenAct("shift", c), ShiftToken(c), next)
        [] op = Op.skipToken  -> Yielded(m, TokenAct("skip", c), SkipToken(c), m.base)
        [] op = Op.peekSkipToken -> At(m, SkipToken(c), m.base)
        [] op = Op.peekToken  -> At(m, PeekToken(c), next)
        [] op = Op.peekReset  -> At(m, PeekReset(c), next)
        [] op = Op.shiftChar  -> At(m, ShiftChar(c), next)
        [] op = Op.assignToken -> At(m, AssignToken(c, U32At(bc, m.pc + 1)), next)
        [] op = Op.reduce ->
             LET nt == U32At(bc, m.pc + 1)
             IN  Yielded(m, [a |-> "reduce", nt |-> nt, rule |-> U32At(bc, m.pc + 5),
                             n |-> U16At(bc, m.pc + 9)], [c EXCEPT !.nt = nt], next)
        [] op = Op.pushGoto -> At(m, [c EXCEPT !.stack = Append(@, u32)], next)
        [] op = Op.popGoto  -> At(m, PopState(c), next)
        [] op = Op.goto     -> [At(m, c, u32) EXCEPT !.base = u32]
        [] op = Op.pass     -> Popped(m)
        [] op = Op.fail     -> Failed(m)
        [] op = Op.accept   -> Stop(m, "accept")
        [] op = Op.fork     -> [m EXCEPT !.end = "fork"]
        [] op = Op.hashBranch    -> HashBranch(m, bc, text)
        [] op = Op.byteSequence  -> MatchBytes(m, bc, text)
        [] op = Op.readCodepoint -> ReadCodepoint(m, text)
        [] OTHER -> At(m, c, next)

ForkTargets(m, bc) == [k \in 1..U16At(bc, m.pc + 1) |-> U32At(bc, m.pc + 3 + 4 * (k - 1))]

\* A whole parse, as Run of the module IR has it.
RECURSIVE Interpret(_, _, _, _)
Interpret(m, bc, text, fuel) ==
  CASE fuel = 0 -> Append(m.acts, [a |-> "endless"])
    [] fuel > 0 /\ m.end = "no" ->
         CHOOSE r \in {Interpret(n, bc, text, fuel - 1) : n \in {Execute(m, bc, text)}} : TRUE
    [] fuel > 0 /\ m.end = "fork" ->
         LET to == ForkTargets(m, bc)
         IN  Append(m.acts, [a |-> "fork",
                             paths |-> [k \in DOMAIN to |->
                               Interpret(Processor(m.c, to[k]), bc, text, fuel - 1)]])
    [] OTHER -> m.acts
=============================================================================
