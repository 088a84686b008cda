---------------------------- MODULE Fingerprints ----------------------------
(***************************************************************************)
(* The fingerprints of the full build: which letters each of them loads,   *)
(* and the table the manager looks them up in. Every fingerprint lists its *)
(* letters twice, once in the calls of its loader and once in the string   *)
(* the table has for it, in a file generated from FPRINT/FPRINT.spec. The  *)
(* manager loads by the first list and unloads by the second.              *)
(***************************************************************************)
EXTENDS Integers, Sequences, SequencesExt

Alphabet == <<"A", "B", "C", "D", "E", "F", "G", "H", "I", "J", "K", "L", "M",
              "N", "O", "P", "Q", "R", "S", "T", "U", "V", "W", "X", "Y", "Z">>

(* The letters a loader pushes a semantic for, in the order of its calls. NULL
   counts them from A up to the letter before Z. *)
load_3DSP == <<"A", "B", "C", "D", "L", "M", "N", "P", "R", "S", "T", "U", "V", "X",
             "Y", "Z">>
load_BASE == <<"B", "H", "I", "N", "O">>
load_BOOL == <<"A", "N", "O", "X">>
load_CPLI == <<"A", "D", "M", "O", "S", "V">>
load_DATE == <<"A", "C", "D", "J", "T", "W", "Y">>
load_DIRF == <<"C", "M", "R">>
load_FILE == <<"C", "D", "G", "L", "O", "P", "R", "S", "W">>
load_FING == <<"X", "Y", "Z">>
load_FIXP == <<"A", "B", "C", "D", "I", "J", "N", "O", "P", "Q", "R", "S", "T", "U",
             "V", "X">>
load_FPDP == <<"A", "B", "C", "D", "E", "F", "G", "H", "I", "K", "L", "M", "N", "P",
             "Q", "R", "S", "T", "V", "X", "Y">>
load_FPSP == <<"A", "B", "C", "D", "E", "F", "G", "H", "I", "K", "L", "M", "N", "P",
             "Q", "R", "S", "T", "V", "X", "Y">>
load_FRTH == <<"D", "L", "O", "P", "R">>
load_HRTI == <<"E", "G", "M", "T", "S">>
load_INDV == <<"G", "P", "V", "W">>
load_JSTR == <<"G", "P">>
load_MODU == <<"M", "R", "U">>
load_NCRS == <<"B", "C", "E", "G", "I", "K", "M", "N", "P", "R", "S", "U">>
load_NULL == SubSeq(Alphabet, 1, 25)
load_ORTH_NoRamp == <<"A", "O", "E", "G", "P", "S", "V", "W", "X", "Y">>
load_ORTH == <<"A", "O", "E", "G", "P", "S", "V", "W", "X", "Y", "Z">>
load_PERL == <<"E", "I", "S">>
load_REFC == <<"D", "R">>
load_REXP == <<"C", "E", "F">>
load_ROMA == <<"C", "D", "I", "L", "M", "V", "X">>
load_SCKE == <<"H", "P">>
load_SOCK == <<"A", "B", "C", "I", "K", "L", "O", "R", "S", "W">>
load_STRN == <<"A", "C", "D", "F", "G", "I", "L", "M", "N", "P", "R", "S", "V">>
load_SUBR == <<"A", "C", "J", "O", "R">>
load_TERM == <<"C", "D", "G", "H", "L", "S", "U">>
load_TIME == <<"D", "F", "G", "H", "L", "M", "O", "S", "W", "Y">>
load_TOYS == Alphabet
load_TURT == <<"A", "B", "C", "D", "E", "F", "H", "I", "L", "N", "P", "Q", "R", "T",
             "U">>

Entry(code, name, loads, opcodes, safe) ==
        [fprint |-> code, name |-> name, loads |-> loads, opcodes |-> Range(opcodes), safe
          |-> safe]

(* Sorted by code. No letter is twice in one string. *)
ImplementedFingerprints == <<
        Entry(\h33445350, "3DSP", load_3DSP, <<"A", "B", "C", "D", "L", "M", "N", "P",
          "R", "S", "T", "U", "V", "X", "Y", "Z">>, TRUE),
    Entry(\h42415345, "BASE", load_BASE, <<"B", "H", "I", "N", "O">>, TRUE),
    Entry(\h424f4f4c, "BOOL", load_BOOL, <<"A", "N", "O", "X">>, TRUE),
    Entry(\h43504c49, "CPLI", load_CPLI, <<"A", "D", "M", "O", "S", "V">>, TRUE),
    Entry(\h44415445, "DATE", load_DATE, <<"A", "C", "D", "J", "T", "W", "Y">>, TRUE),
    Entry(\h44495246, "DIRF", load_DIRF, <<"C", "M", "R">>, FALSE),
        Entry(\h46494c45, "FILE", load_FILE, <<"C", "D", "G", "L", "O", "P", "R", "S",
          "W">>, FALSE),
    Entry(\h46494e47, "FING", load_FING, <<"X", "Y", "Z">>, TRUE),
        Entry(\h46495850, "FIXP", load_FIXP, <<"A", "B", "C", "D", "I", "J", "N", "O",
          "P", "Q", "R", "S", "T", "U", "V", "X">>, TRUE),
        Entry(\h46504450, "FPDP", load_FPDP, <<"A", "B", "C", "D", "E", "F", "G", "H",
          "I", "K", "L", "M", "N", "P", "Q", "R", "S", "T", "V", "X", "Y">>, TRUE),
        Entry(\h46505350, "FPSP", load_FPSP, <<"A", "B", "C", "D", "E", "F", "G", "H",
          "I", "K", "L", "M", "N", "P", "Q", "R", "S", "T", "V", "X", "Y">>, TRUE),
    Entry(\h46525448, "FRTH", load_FRTH, <<"D", "L", "O", "P", "R">>, TRUE),
    Entry(\h48525449, "HRTI", load_HRTI, <<"E", "G", "M", "S", "T">>, TRUE),
    Entry(\h494e4456, "INDV", load_INDV, <<"G", "P", "V", "W">>, TRUE),
    Entry(\h4a535452, "JSTR", load_JSTR, <<"G", "P">>, TRUE),
    Entry(\h4d4f4455, "MODU", load_MODU, <<"M", "R", "U">>, TRUE),
        Entry(\h4e435253, "NCRS", load_NCRS, <<"B", "C", "E", "G", "I", "K", "M", "N",
          "P", "R", "S", "U">>, TRUE),
    Entry(\h4e554c4c, "NULL", load_NULL, Alphabet, TRUE),
        Entry(\h4f525448, "ORTH", load_ORTH, <<"A", "E", "G", "O", "P", "S", "V", "W",
          "X", "Y", "Z">>, TRUE),
    Entry(\h5045524c, "PERL", load_PERL, <<"E", "I", "S">>, FALSE),
    Entry(\h52454643, "REFC", load_REFC, <<"D", "R">>, TRUE),
    Entry(\h52455850, "REXP", load_REXP, <<"C", "E", "F">>, TRUE),
    Entry(\h524f4d41, "ROMA", load_ROMA, <<"C", "D", "I", "L", "M", "V", "X">>, TRUE),
    Entry(\h53434b45, "SCKE", load_SCKE, <<"H", "P">>, FALSE),
        Entry(\h534f434b, "SOCK", load_SOCK, <<"A", "B", "C", "I", "K", "L", "O", "R",
          "S", "W">>, FALSE),
        Entry(\h5354524e, "STRN", load_STRN, <<"A", "C", "D", "F", "G", "I", "L", "M",
          "N", "P", "R", "S", "V">>, TRUE),
    Entry(\h53554252, "SUBR", load_SUBR, <<"A", "C", "J", "O", "R">>, TRUE),
    Entry(\h5445524d, "TERM", load_TERM, <<"C", "D", "G", "H", "L", "S", "U">>, TRUE),
        Entry(\h54494d45, "TIME", load_TIME, <<"D", "F", "G", "H", "L", "M", "O", "S",
          "W", "Y">>, TRUE),
    Entry(\h544f5953, "TOYS", load_TOYS, Alphabet, TRUE),
        Entry(\h54555254, "TURT", load_TURT, <<"A", "B", "C", "D", "E", "F", "H", "I",
          "L", "N", "P", "Q", "R", "T", "U">>, TRUE)>>
=============================================================================
