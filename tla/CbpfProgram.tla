----------------------------- MODULE CbpfProgram -----------------------------
(***************************************************************************)
(* thekernel-axcbpf program.rs: the verifier of classic-BPF programs and   *)
(* the interpreter of the programs it accepts.  A behaviour submits one    *)
(* program and, once it is verified, evaluates it on one input,            *)
(* an instruction per step.  Words have W bits (32 in the code), so that   *)
(* wrapping, shifts and the ancillary half of the offsets stay in reach;   *)
(* an input is its length, and a load inside it yields any word.           *)
(***************************************************************************)
EXTENDS CbpfOpcodes, Integers, Sequences, Bitwise

CONSTANTS W,                \* bits of a word
          SCRATCH_WORDS,
          MAX_INSTRUCTIONS,
          Ancillary,        \* offsets ancillary_from_offset resolves
          Programs,         \* submitted instruction sequences
          Lengths           \* input lengths

Modulus == 2 ^ W
Words == 0 .. Modulus - 1
Scratch == 0 .. SCRATCH_WORDS - 1

VARIABLES program,       \* the instructions submitted
          at,            \* "submitted", "running", "returned", "rejected"
          len,           \* length of the input
          pc, steps, accumulator, index, scratch,
          written,       \* scratch words written in this evaluation
          value          \* the value returned

registers == <<pc, steps, accumulator, index, scratch, written>>
vars == <<program, at, len, registers, value>>

-----------------------------------------------------------------------------
(* verify_structure.                                                        *)

Negative(k) == k >= Modulus \div 2

\* The targets of the instruction at index i (from 0) of a program.
Targets(p, i) ==
    LET c == p[i + 1] IN
    CASE c.code \in Returns -> {}
      [] c.code = "JA" -> {i + 1 + c.k}
      [] c.code \in Jumps -> {i + 1 + c.jt, i + 1 + c.jf}
      [] OTHER -> {i + 1}

InstructionOk(p, i) ==
    LET c == p[i + 1] IN
    /\ c.code \in Supported
    /\ c.code \in {"DIV_K", "MOD_K"} => c.k # 0
    /\ c.code \in {"LSH_K", "RSH_K"} => c.k < W
    /\ c.code \in MemLoads \cup Stores => c.k < SCRATCH_WORDS
    /\ c.code \in Jumps \cup {"JA"} => \A t \in Targets(p, i) : t < Len(p)
    /\ c.code \in AbsLoads => ~Negative(c.k) \/ c.k \in Ancillary
    /\ c.code = "LDX_B_MSH" => ~Negative(c.k)

VerifyStructure(p) ==
    /\ p # <<>> /\ Len(p) <= MAX_INSTRUCTIONS
    /\ \A i \in 0 .. Len(p) - 1 : InstructionOk(p, i)
    /\ p[Len(p)].code \in Returns

-----------------------------------------------------------------------------
(* verify_scratch_initialization: one forward pass over the program, which  *)
(* carries the words every path has written; <<>> where no path arrives.    *)

After(c, known) == IF c.code \in Stores THEN known \cup {c.k} ELSE known

\* Mutation: a word written on some path is taken for written.
MergeAny(slot, known) == IF slot = <<>> THEN <<known>> ELSE <<slot[1] \cup known>>

\* merge_initialized.
Merge(slot, known) == IF slot = <<>> THEN <<known>> ELSE <<slot[1] \cap known>>

\* The pass from index i on; FALSE when a load finds its word unwritten.
RECURSIVE ScratchPass(_, _, _)
ScratchPass(p, i, incoming) ==
    IF i = Len(p) THEN TRUE
    ELSE LET c == p[i + 1] IN
         IF incoming[i] = <<>> THEN ScratchPass(p, i + 1, incoming)
         ELSE /\ c.code \in MemLoads => c.k \in incoming[i][1]
              /\ ScratchPass(p, i + 1,
                    [j \in DOMAIN incoming |->
                       IF j \in Targets(p, i)
                       THEN Merge(incoming[j], After(c, incoming[i][1])) ELSE incoming[j]])

VerifyScratchInitialization(p) ==
    ScratchPass(p, 0, [j \in 0 .. Len(p) - 1 |-> IF j = 0 THEN <<{}>> ELSE <<>>])

VerifyProgram(p) == VerifyStructure(p) /\ VerifyScratchInitialization(p)

-----------------------------------------------------------------------------
Init ==
    /\ program \in Programs /\ len \in Lengths /\ at = "submitted"
    /\ pc = 0 /\ steps = 0 /\ accumulator = 0 /\ index = 0
    /\ scratch = [s \in Scratch |-> 0] /\ written = {} /\ value = 0

\* Program::verify or try_from_vec, and the first turn of evaluate_counted's loop.
Verify ==
    /\ at = "submitted"
    /\ at' = IF VerifyProgram(program) THEN "running" ELSE "rejected"
    /\ UNCHANGED <<program, len, registers, value>>

-----------------------------------------------------------------------------
(* evaluate_counted.                                                        *)

Current == program[pc + 1]
Is(codes) == at = "running" /\ steps < Len(program) /\ Current.code \in codes

Wrap(x) == x % Modulus
ShiftLeft(a, n) == Wrap(a * 2 ^ (n % W))
ShiftRight(a, n) == a \div 2 ^ (n % W)

\* The operations on the accumulator; the divisor is not zero.
Alu(code, a, b) ==
    CASE code \in {"ADD_K", "ADD_X"} -> Wrap(a + b)
      [] code \in {"SUB_K", "SUB_X"} -> Wrap(a - b)
      [] code \in {"MUL_K", "MUL_X"} -> Wrap(a * b)
      [] code \in {"DIV_K", "DIV_X"} -> a \div b
      [] code \in {"MOD_K", "MOD_X"} -> a % b
      [] code \in {"OR_K", "OR_X"} -> a | b
      [] code \in {"AND_K", "AND_X"} -> a & b
      [] code \in {"XOR_K", "XOR_X"} -> a ^^ b
      [] code \in {"LSH_K", "LSH_X"} -> ShiftLeft(a, b)
      [] code \in {"RSH_K", "RSH_X"} -> ShiftRight(a, b)

Bytes(code) == CASE code \in {"LD_W_ABS", "LD_W_IND"} -> 4
                 [] code \in {"LD_H_ABS", "LD_H_IND"} -> 2
                 [] OTHER -> 1

\* Input::load.
InRange(offset, code) == offset + Bytes(code) <= len

Return(v) ==
    /\ at' = "returned" /\ value' = v /\ steps' = steps + 1
    /\ UNCHANGED <<program, len, pc, accumulator, index, scratch, written>>

Continue(a, x) ==
    /\ accumulator' = a /\ index' = x /\ pc' = pc + 1 /\ steps' = steps + 1
    /\ UNCHANGED <<program, at, len, scratch, written, value>>

LoadAbsolute ==
    /\ Is(AbsLoads)
    /\ IF Current.k \in Ancillary \/ InRange(Current.k, Current.code)
       THEN \E v \in Words : Continue(v, index) ELSE Return(0)

\* The offset is checked for overflow before the load.
LoadIndirect ==
    /\ Is(IndLoads)
    /\ IF index + Current.k < Modulus /\ InRange(index + Current.k, Current.code)
       THEN \E v \in Words : Continue(v, index) ELSE Return(0)

LoadHeaderLength ==
    /\ Is({"LDX_B_MSH"})
    /\ IF InRange(Current.k, Current.code)
       THEN \E v \in Words : Continue(accumulator, Wrap((v % 16) * 4)) ELSE Return(0)

Move ==
    \/ Is({"LD_IMM"}) /\ Continue(Current.k, index)
    \/ Is({"LDX_IMM"}) /\ Continue(accumulator, Current.k)
    \/ Is({"LD_LEN"}) /\ Continue(Wrap(len), index)
    \/ Is({"LDX_LEN"}) /\ Continue(accumulator, Wrap(len))
    \/ Is({"LD_MEM"}) /\ Continue(scratch[Current.k], index)
    \/ Is({"LDX_MEM"}) /\ Continue(accumulator, scratch[Current.k])
    \/ Is({"TAX"}) /\ Continue(accumulator, accumulator)
    \/ Is({"TXA"}) /\ Continue(index, index)
    \/ Is({"NEG"}) /\ Continue(Wrap(-accumulator), index)

Store ==
    /\ Is(Stores)
    /\ scratch' = [scratch EXCEPT ![Current.k] = IF Current.code = "ST" THEN accumulator ELSE index]
    /\ written' = written \cup {Current.k}
    /\ pc' = pc + 1 /\ steps' = steps + 1
    /\ UNCHANGED <<program, at, len, accumulator, index, value>>

ComputeK == Is(AluK) /\ Continue(Alu(Current.code, accumulator, Current.k), index)

ComputeX ==
    /\ Is(AluX)
    /\ IF Current.code \in {"DIV_X", "MOD_X"} /\ index = 0 THEN Return(0)
       ELSE Continue(Alu(Current.code, accumulator, index), index)

Holds(code, a, b) ==
    CASE code \in {"JEQ_K", "JEQ_X"} -> a = b
      [] code \in {"JGT_K", "JGT_X"} -> a > b
      [] code \in {"JGE_K", "JGE_X"} -> a >= b
      [] code \in {"JSET_K", "JSET_X"} -> (a & b) # 0

JumpTo(d) ==
    /\ pc' = pc + 1 + d /\ steps' = steps + 1
    /\ UNCHANGED <<program, at, len, accumulator, index, scratch, written, value>>

Jump == Is({"JA"}) /\ JumpTo(Current.k)

JumpIf ==
    /\ Is(Jumps)
    /\ LET operand == IF Current.code \in JumpsX THEN index ELSE Current.k IN
       JumpTo(IF Holds(Current.code, accumulator, operand) THEN Current.jt ELSE Current.jf)

Finish == Is(Returns) /\ Return(IF Current.code = "RET_K" THEN Current.k ELSE accumulator)

Next == \/ Verify \/ LoadAbsolute \/ LoadIndirect \/ LoadHeaderLength \/ Move \/ Store
        \/ ComputeK \/ ComputeX \/ Jump \/ JumpIf \/ Finish

Spec == Init /\ [][Next]_vars

-----------------------------------------------------------------------------
(* The reference: the paths of the control-flow graph.                      *)

\* Every path from index i with these words written reads only written words.
RECURSIVE PathsRead(_, _, _)
PathsRead(p, i, known) ==
    LET c == p[i + 1] IN
    /\ c.code \in MemLoads => c.k \in known
    /\ \A t \in Targets(p, i) : PathsRead(p, t, After(c, known))

\* The verifier accepts a well-formed program exactly when no path of it reads an
\* unwritten scratch word; an accepted program never leaves its instructions,
\* reads no unwritten word, divides by no zero, keeps its registers in a word, and
\* returns within as many steps as it has instructions (verify_program,
\* evaluate_counted and its two unreachable! arms).
CbpfSound ==
    /\ at = "submitted" /\ VerifyStructure(program)
         => (VerifyScratchInitialization(program) <=> PathsRead(program, 0, {}))
    /\ at = "running" =>
         /\ pc \in 0 .. Len(program) - 1 /\ steps < Len(program) /\ steps <= pc
         /\ {accumulator, index} \subseteq Words
         /\ Current.code \in MemLoads => Current.k \in written
         /\ Current.code \in {"DIV_K", "MOD_K"} => Current.k # 0
    /\ at = "returned" => steps <= Len(program) /\ value \in Words
=============================================================================
