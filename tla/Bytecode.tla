------------------------------- MODULE Bytecode -------------------------------
(***************************************************************************)
(* The layout of a program as bytes (build_bytecode.rs, bytecode.rs): the  *)
(* states are written one after the other with a proxy in place of each    *)
(* state they name; when all addresses are known, a walk over the          *)
(* instructions puts the addresses there.                                  *)
(*                                                                         *)
(* Addresses count from 0, sequences from 1.  Debug symbols are left out.  *)
(***************************************************************************)
EXTENDS IR, FiniteSetsExt, TLC

VARIABLES
  code,       \* the bytes written so far, <<>> before the first
  proxies,    \* the names states refer to: their proxies are 0, 1, ...
  todo,       \* names of the states still to be written
  address,    \* name -> address
  walk,       \* where the walk that puts in the addresses is
  broken      \* whether it has stopped on an index or an operand out of bounds

layout == <<code, proxies, todo, address, walk, broken>>

---------------------------------------------------------------------------
(* Instructions.                                                           *)

Op == [noop |-> 0, pass |-> 1, fail |-> 2, shiftChar |-> 3, shiftToken |-> 4,
       shiftTokenScanless |-> 5, peekToken |-> 6, peekTokenScanless |-> 7, skipToken |-> 8,
       skipTokenScanless |-> 9, peekSkipToken |-> 10, peekSkipTokenScanless |-> 11,
       peekReset |-> 12, accept |-> 13, popGoto |-> 14, pushGoto |-> 15,
       pushExceptionHandler |-> 16, goto |-> 17, assignToken |-> 18, reduce |-> 19,
       vectorBranch |-> 20, hashBranch |-> 21, byteSequence |-> 22, fork |-> 23,
       readCodepoint |-> 24]

\* The length of an instruction with operands of a fixed size (Opcode::len).
FixedLength(op) ==
  CASE op = Op.reduce -> 11
    [] op \in {Op.goto, Op.pushGoto, Op.pushExceptionHandler} -> 6
    [] op = Op.assignToken -> 5
    [] OTHER -> 1

Bytes(v, n) == [i \in 1..n |-> (v \div 256^(i - 1)) % 256]
U16(v) == Bytes(v, 2)
U32(v) == Bytes(v, 4)

ByteOf(bc, a) == bc[a + 1]
U16At(bc, a)  == bc[a + 1] + 256 * bc[a + 2]
Huge == 2147483647   \* stands for every larger u32
U32At(bc, a)  == IF bc[a + 4] > 127 THEN Huge
                 ELSE U16At(bc, a) + 65536 * U16At(bc, a + 2)
NoScanner == <<255, 255, 255, 255>>   \* u32::MAX

Header == <<0, 210, 193, 196, 160, 204, 210, Op.fail>>

\* MatchInputType, by the name of the mode.
InputTypes == <<"_NONTERMINAL_", "_TOKEN_", "_CLASS_", "_CODEPOINT_", "_BYTE_", "_EOF_", "",
                "_BYTE_SCANLESS_", "_CODEPOINT_SCANLESS_", "_CLASS_SCANLESS_", "_BYTE_SEQUENCE_">>
InputType(mode) == (CHOOSE i \in DOMAIN InputTypes : InputTypes[i] = mode) - 1

---------------------------------------------------------------------------
(* The table of a match (build_match): a value is in the slot of its low   *)
(* bits, or at the end of the chain that starts there.  A slot is          *)
(* <<value, offset, distance to the next>>, or <<>>.                       *)

FloorLog2(n) == CHOOSE k \in 0..n : 2^k <= n /\ n < 2^(k + 1)

RECURSIVE ChainEnd(_, _)
ChainEnd(table, i) == IF table[i][3] = 0 THEN i ELSE ChainEnd(table, i + table[i][3])

HashTable(keys, offsetOf) ==
  LET n       == Len(keys)
      slot(v) == v % (2^FloorLog2(n))
      put(table, v) == IF table[slot(v)] = <<>>
                       THEN [table EXCEPT ![slot(v)] = <<v, offsetOf[v], 0>>] ELSE table
      direct  == FoldLeft(put, [i \in 0..(n - 1) |-> <<>>], keys)
      probe(table, v) ==
        LET free == Min({i \in DOMAIN table : table[i] = <<>>})
            end  == ChainEnd(table, slot(v))
        IN  [table EXCEPT ![end][3] = free - end, ![free] = <<v, offsetOf[v], 0>>]
  IN  FoldLeft(probe, direct, SelectSeq(keys, LAMBDA v : direct[slot(v)][1] # v))

\* value: 11 bits, offset: 11 bits, distance plus 512: 10 bits.
SlotBytes(s) ==
  LET v == s[1] % 2048  off == s[2] % 2048  d == (s[3] + 512) % 1024
  IN  <<v % 256, (v \div 256) + (off % 32) * 8, (off \div 32) + (d % 4) * 64, d \div 4>>

---------------------------------------------------------------------------
(* Statements (build_statement, build_match).  The argument px gives the   *)
(* number to write for a name; last is the byte before the statement.      *)

TransitiveOp == [i \in {"shift tok", "shift-skip tok", "peek tok", "peek-skip tok",
                        "reset tok", "shift char"} |->
  CASE i = "shift tok" -> Op.shiftToken     [] i = "shift-skip tok" -> Op.skipToken
    [] i = "peek tok"  -> Op.peekToken      [] i = "peek-skip tok"  -> Op.peekSkipToken
    [] i = "reset tok" -> Op.peekReset      [] i = "shift char"     -> Op.shiftChar]

NonBranchBytes(nb) ==
  IF nb.op = "set-tok" THEN <<Op.assignToken>> \o U32(nb.id)
  ELSE <<Op.reduce>> \o U32(nb.nt) \o U32(nb.rule) \o U16(nb.n)

Straight(s) ==
  (IF s.tr = None THEN <<>> ELSE <<TransitiveOp[s.tr]>>)
  \o FlattenSeq([i \in DOMAIN s.nb |-> NonBranchBytes(s.nb[i])])
  \o [i \in 1..s.pop |-> Op.popGoto]

Jump(op, px, name) == <<op, 1>> \o U32(px[name])

GotosBytes(br, px) ==
  FlattenSeq([i \in DOMAIN br.pushes |-> Jump(Op.pushGoto, px, br.pushes[i])])
  \o (IF br.goto = None THEN <<>> ELSE Jump(Op.goto, px, br.goto))
  \o (IF br.fork = <<>> THEN <<>>
      ELSE <<Op.fork>> \o U16(Len(br.fork))
           \o FlattenSeq([i \in DOMAIN br.fork |-> U32(px[br.fork[i]])]))

\* The last bytes that are taken for the end of a block.  A block of its own with
\* nothing in it gets no end either: for it, last is one of them.
Ends == {Op.pass, Op.accept, Op.fail, Op.goto, Op.peekSkipToken, Op.skipToken,
         Op.skipTokenScanless, Op.peekSkipTokenScanless}
OwnBlock == Op.pass

LastOf(bytes, last) == IF bytes = <<>> THEN last ELSE Last(bytes)
Ended(bytes, last)  == IF LastOf(bytes, last) \in Ends THEN bytes ELSE Append(bytes, Op.pass)

RECURSIVE Build(_, _, _), BuildMatch(_, _)
Build(s, px, last) ==
  LET straight == Straight(s)
      branch == CASE s.br.k = "none"   -> <<>>
                  [] s.br.k = "pass"   -> <<Op.pass>>
                  [] s.br.k = "fail"   -> <<Op.fail>>
                  [] s.br.k = "accept" -> <<Op.accept>>
                  [] s.br.k = "gotos"  -> GotosBytes(s.br, px)
                  [] s.br.k = "match"  -> BuildMatch(s.br, px)
  IN  Ended(straight \o branch, last)

BuildMatch(br, px) ==
  LET cases == Reverse(SelectSeq(br.cases, LAMBDA m : ~ IsDefault(m)))
      dflt  == SelectSeq(br.cases, IsDefault)
      block(i) == Build(cases[i].st, px, OwnBlock)
      \* the blocks of the cases, and where each starts among them
      blocks == [i \in DOMAIN cases |-> block(i)]
      before(i) == Len(FlattenSeq(SubSeq(blocks, 1, i - 1)))
      keys == SetToSortSeq(UNION {ToSet(cases[i].vals) : i \in DOMAIN cases}, LAMBDA x, y : x < y)
      start == 18 + 4 * Len(keys)
      offsetOf == [v \in ToSet(keys) |->
                     start + before(Max({i \in DOMAIN cases : v \in ToSet(cases[i].vals)}))]
      table == HashTable(keys, offsetOf)
      body  == FlattenSeq(blocks)
  IN  CASE cases = <<>> -> <<Op.readCodepoint>> \o Build(dflt[1].st, px, Op.readCodepoint)
        [] cases # <<>> /\ br.mode = "_BYTE_SEQUENCE_" ->
             LET seq  == cases[1].vals
                 base == 7 + Len(seq)
             IN  <<Op.byteSequence>> \o U16(Len(seq))
                 \o U32(IF dflt = <<>> THEN 0 ELSE base + Len(blocks[1]))
                 \o [i \in DOMAIN seq |-> seq[i] % 256] \o blocks[1]
                 \o (IF dflt = <<>> THEN <<>> ELSE Build(dflt[1].st, px, OwnBlock))
        [] OTHER ->
             <<Op.hashBranch, InputType(br.mode)>> \o U32(start + Len(body))
             \o (IF br.mode = "_TOKEN_" THEN U32(px[br.scanner]) ELSE NoScanner)
             \o U32(Len(keys)) \o U32(FloorLog2(Len(keys)))
             \o FlattenSeq([i \in DOMAIN keys |-> SlotBytes(table[i - 1])]) \o body
             \o (IF dflt = <<>> THEN <<Op.fail>> ELSE Build(dflt[1].st, px, Last(body)))

---------------------------------------------------------------------------
(* compile_bytecode.                                                       *)

LayoutInit ==
  /\ code = <<>> /\ proxies = <<>> /\ todo = <<>> /\ address = <<>>
  /\ walk = 0 /\ broken = FALSE

\* The states come in the order of the map.  Proxies are handed out at the first
\* use; which name has which does not matter.
Open(order, names) ==
  /\ code = <<>>
  /\ code' = Header
  /\ todo' = order /\ proxies' = names
  /\ walk' = Len(Header)
  /\ UNCHANGED <<address, broken>>

ProxyOf == [n \in ToSet(proxies) |-> (CHOOSE i \in DOMAIN proxies : proxies[i] = n) - 1]

BuildState(p) ==
  /\ todo # <<>>
  /\ code' = code \o Build(p[Head(todo)].st, ProxyOf, Last(code))
  /\ address' = address @@ (Head(todo) :> Len(code))
  /\ todo' = Tail(todo)
  /\ UNCHANGED <<proxies, walk, broken>>

\* A state that is not there has the address 0.
AddressOf(n) == IF n \in DOMAIN address THEN address[n] ELSE 0

\* Where the instruction at i holds proxies, and how far the walk goes on from it
\* (remap_goto_addresses).
ProxiesAt(i) ==
  LET op == ByteOf(code, i) IN
  CASE op = Op.hashBranch -> IF SubSeq(code, i + 7, i + 10) = NoScanner THEN {} ELSE {i + 6}
    [] op \in {Op.goto, Op.pushGoto, Op.pushExceptionHandler} -> {i + 2}
    [] op = Op.fork -> {i + 3 + 4 * k : k \in 0..(U16At(code, i + 1) - 1)}
    [] OTHER -> {}

\* Mutant: the walk steps into the table of a match.
StrideIntoTable(i) ==
  LET op == ByteOf(code, i) IN
  CASE op = Op.hashBranch -> 18
    [] op = Op.fork -> 3 + U16At(code, i + 1) + 4
    [] op = Op.byteSequence -> 7 + U16At(code, i + 1)
    [] OTHER -> FixedLength(op)

Stride(i) ==
  LET op == ByteOf(code, i) IN
  CASE op = Op.hashBranch -> 18 + 4 * U32At(code, i + 10)
    [] op = Op.fork -> 3 + U16At(code, i + 1) + 4
    [] op = Op.byteSequence -> 7 + U16At(code, i + 1)
    [] OTHER -> FixedLength(op)

\* Operands the walk reads at the instruction are in the code, and so are proxies;
\* a VectorBranch has no length here.
Readable(i) ==
  LET op == ByteOf(code, i) IN
  /\ op # Op.vectorBranch
  /\ i + (CASE op = Op.hashBranch -> 18
            [] op \in {Op.fork, Op.byteSequence} -> 3
            [] OTHER -> 1) <= Len(code)
  /\ op = Op.hashBranch => U32At(code, i + 10) < Len(code)
  /\ \A a \in ProxiesAt(i) : a + 4 <= Len(code) /\ U32At(code, a) < Len(proxies)

Remap ==
  /\ code # <<>> /\ todo = <<>> /\ ~ broken /\ walk < Len(code)
  /\ IF Readable(walk)
     THEN /\ code' = [k \in DOMAIN code |->
                IF \E a \in ProxiesAt(walk) : k \in (a + 1)..(a + 4)
                THEN LET a == CHOOSE a \in ProxiesAt(walk) : k \in (a + 1)..(a + 4)
                     IN  U32(AddressOf(proxies[U32At(code, a) + 1]))[k - a]
                ELSE code[k]]
          /\ walk' = walk + Stride(walk)
          /\ UNCHANGED broken
     ELSE broken' = TRUE /\ UNCHANGED <<code, walk>>
  /\ UNCHANGED <<proxies, todo, address>>

Laid == code # <<>> /\ todo = <<>> /\ (broken \/ walk >= Len(code))

---------------------------------------------------------------------------
\* The bytes are those the states would have been written as with the addresses
\* known from the start: every name leads to its state, and nothing else has
\* changed (remap_goto_addresses: "Converts Goto location bookmarks to bytecode
\* addresses.").
LinkedAs(p) ==
  Laid => /\ ~ broken
          /\ \A n \in DOMAIN address :
               LET bytes == Build(p[n].st, address, OwnBlock)
               IN  SubSeq(code, address[n] + 1, address[n] + Len(bytes)) = bytes
=============================================================================
