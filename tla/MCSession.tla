----------------------------- MODULE MCSession ------------------------------
(***************************************************************************)
(* Session on a few lines: accepted and rejected ones, with and without    *)
(* operators, over the value types.                                        *)
(***************************************************************************)
EXTENDS Session

(* Every line of up to two tokens over a small alphabet, and longer ones   *)
(* that end in each of the ways a line can end.                            *)
MCLines == UNION {[1 .. n -> {"INUM_TOKEN", "SUB_TOKEN", "SYMBOL_TOKEN"}] : n \in 0 .. 2} \cup {
  <<"QSTRG_TOKEN", "ADD_TOKEN", "NOTHING_TOKEN">>,
  <<"OPAR_TOKEN", "QSTRG_TOKEN", "CPAR_TOKEN">>,
  <<"SUB_TOKEN", "OPAR_TOKEN", "INUM_TOKEN", "LT_TOKEN", "FNUM_TOKEN", "CPAR_TOKEN">>,
  <<"QSTRG_TOKEN", "MUL_TOKEN", "QSTRG_TOKEN">>,
  <<"UNUM_TOKEN", "SLASH_TOKEN">>,
  <<"OPAR_TOKEN", "TRUE_TOKEN", "EQUALITY_TOKEN", "INUM_TOKEN">>,
  <<"NOT_TOKEN", "NOTHING_TOKEN", "SYMBOL_TOKEN">>,
  <<"ERROR_TOKEN", "UNUM_TOKEN", "MOD_TOKEN", "INUM_TOKEN", "ADD_TOKEN", "FNUM_TOKEN">>}

(* A line that is a number alone. *)
MCBareConstants == {<<"INUM_TOKEN">>}

(* One operation on operands of every pair of types, and the same on the   *)
(* results of operations.                                                  *)
MCOperands ==
  {<<tok>> : tok \in ConstantToken \cup LiteralToken}
    \cup {<<op, tok>> : op \in UnaryToken, tok \in ConstantToken \cup LiteralToken}
    \cup {<<"OPAR_TOKEN", l, op, r, "CPAR_TOKEN">> :
            l, r \in {"QSTRG_TOKEN", "FNUM_TOKEN", "INUM_TOKEN"},
            op \in {"ADD_TOKEN", "EQUALITY_TOKEN", "SUB_TOKEN"}}

MCOperations ==
  {l \o <<op>> \o r : l, r \in MCOperands, op \in {"ADD_TOKEN", "SLASH_TOKEN",
                                            "EQUALITY_TOKEN", "LTE_TOKEN"}}

(* Lines of both kinds: an operation is the only input of its session.     *)
MCAnyLines == MCLines \cup MCOperations

(* An operation is tried at the prompt, as the first input. *)
Continues == \A i \in DOMAIN source : source[i] \in MCLines

OpensOneOf(lines) == inputs' # inputs /\ streams' # streams => Head(streams') \in lines

MCNext ==
  \/ /\ inputs = 0 /\ mode = "repl"
     /\ SessionNext
  \/ /\ inputs = 0 => mode = "files"
     /\ phase = "ready" => Continues
     /\ SessionNext
     /\ OpensOneOf(MCLines)
  \/ /\ ~Continues
     /\ Quit

MCSpec == SessionInit /\ [][MCNext]_sessionVars /\ SessionFairness
=============================================================================
