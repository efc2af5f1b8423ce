--------------------------- MODULE MCResultFilter ---------------------------
(***************************************************************************)
(* ResultFilter for TLC: files of up to four of the lines below, and the  *)
(* filter stage of main with a few other orders of the calls.              *)
(***************************************************************************)
EXTENDS ResultFilter

CONSTANT MaxLines

Name(category, extension) ==
    [category |-> category, extension |-> extension, isa_set |-> extension]

ResultLine(id, timing, cache, measurement, trigger) ==
    [id |-> id, fields |-> 16, timing |-> timing, cache |-> cache,
     prop |-> [role \in Roles |-> IF role = "measurement" THEN measurement
                                  ELSE trigger]]

\* XSAVE and SSSE3, XSAVES and SSE3 are extensions of x86-instructions, and
\* the names of the two pairs concatenate to the same string: to the filter
\* they are one kind.  SSE3 and SSE3, in the same files, are a kind of their own.
XSAVE  == Name(<<"XSAVE">>, <<"XSAVE">>)
XSAVES == Name(<<"XSAVE">>, <<"XSAVE", "S">>)
SSE3   == Name(<<"SSE">>, <<"SSE3">>)
SSSE3  == Name(<<"MMX">>, <<"S", "SSE3">>)

Cut == [ResultLine(7, 60, {}, SSE3, SSE3) EXCEPT !.fields = 9]

Lines == {ResultLine(1, 60, {}, XSAVE, SSE3), ResultLine(2, -90, {}, XSAVE, SSE3),
          ResultLine(3, 90, {}, XSAVE, SSE3),
          ResultLine(4, 400, {"trigger"}, XSAVE, SSE3),
          ResultLine(5, 70, {}, [XSAVE EXCEPT !.category = <<"OTHER">>], SSE3),
          ResultLine(6, 55, {"reset"}, SSE3, SSE3), Cut}

Collisions == {ResultLine(1, 60, {}, XSAVE, SSSE3), ResultLine(2, 70, {}, XSAVES, SSE3),
               ResultLine(3, 80, {"reset"}, SSE3, SSE3), ResultLine(4, 65, {}, SSE3, SSE3),
               ResultLine(5, -75, {}, SSE3, [SSE3 EXCEPT !.category = <<"OTHER">>])}

FilesOf(lines) ==
    [kind : {"csv"}, lines : UNION {[1..n -> lines] : n \in 0..MaxLines}]
    \cup [kind : {"missing", "headless"}, lines : {<<>>}]

MCInputs == FilesOf(Lines) \cup FilesOf(Collisions)

Tuples == "UNIQUE_PROPERTY_TUPLES"
ExtPairs == "MEASUREMENT_TRIGGER_EXTENSION_PAIRS"

MCPrograms ==
    {FilterStage,
     <<Enable(Tuples), Enable(ExtPairs), Enable(Tuples), Apply,
       Disable(Tuples), Enable("INCREASE_THRESHOLD_TO_300"), Apply>>,
     <<Enable("REMOVE_CACHE_RESET_SEQUENCE"), Enable(ExtPairs), Apply, Apply>>}
=============================================================================
