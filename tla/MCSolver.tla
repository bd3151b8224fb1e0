------------------------------ MODULE MCSolver ------------------------------
EXTENDS Solver

MCTags == {"true", "false", "not", "and", "nand", "or", "nor", "xor", "xnor", "implies",
           "equal", "nequal", "distinct", "ite"}
MCBackends ==
    {"Z3", "STP", "CVC4", "Yices2", "Boolector", "CUDD_Context", "CUDD_Distributed"}
        \X {"none"}
    \union {"SAT_Clause"} \X SatLibrary
    \union {"SAT_Aiger"} \X {"MiniSAT", "PicoSAT"}
=============================================================================
