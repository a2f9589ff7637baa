----------------------------- MODULE CbpfOpcodes -----------------------------
(* thekernel-axcbpf instruction.rs: the operation codes by what they do,   *)
(* and the instructions.                                                   *)

AbsLoads == {"LD_W_ABS", "LD_H_ABS", "LD_B_ABS"}
IndLoads == {"LD_W_IND", "LD_H_IND", "LD_B_IND"}
MemLoads == {"LD_MEM", "LDX_MEM"}
Stores == {"ST", "STX"}
AluK == {"ADD_K", "SUB_K", "MUL_K", "DIV_K", "OR_K", "AND_K", "LSH_K", "RSH_K", "MOD_K", "XOR_K"}
AluX == {"ADD_X", "SUB_X", "MUL_X", "DIV_X", "OR_X", "AND_X", "LSH_X", "RSH_X", "MOD_X", "XOR_X"}
JumpsK == {"JEQ_K", "JGT_K", "JGE_K", "JSET_K"}
JumpsX == {"JEQ_X", "JGT_X", "JGE_X", "JSET_X"}
Jumps == JumpsK \cup JumpsX
Returns == {"RET_K", "RET_A"}
Plain == {"LD_IMM", "LD_LEN", "LDX_IMM", "LDX_LEN", "LDX_B_MSH", "NEG", "TAX", "TXA"}

\* is_supported: the codes the verifier lets through.
Supported == AbsLoads \cup IndLoads \cup MemLoads \cup Stores \cup AluK \cup AluX
             \cup Jumps \cup Returns \cup Plain \cup {"JA"}

\* Instruction::statement and Instruction::jump.
Statement(code, k) == [code |-> code, jt |-> 0, jf |-> 0, k |-> k]
Branch(code, k, jt, jf) == [code |-> code, jt |-> jt, jf |-> jf, k |-> k]
=============================================================================
