--------------------------- MODULE MCConversions ----------------------------
(* Strings over the code units at which the conversions change their way,  *)
(* and times at the edges of a word of 12 bits.                            *)
EXTENDS ConversionProperties

Bytes == {0, \h7F, \h80, \h8F, \h90, \h9F, \hA0, \hBF, \hC1, \hC2, \hDF, \hE0, \hED, \hEF,
          \hF0, \hF4, \hF5, \hFF}

Trails == {\h7F, \h80, \hBF, \hC0}
SecondBytes == {\h7F, \h80, \h8F, \h90, \h9F, \hA0, \hBF, \hC0}
Leads == {\hE0, \hE1, \hED, \hEF, \hF0, \hF1, \hF4, \hF5, \hF8, \hFC}

MCStrings8 ==
  UNION {[1 .. n -> Bytes] : n \in 0 .. 2}
  \cup {<<a, b, c>> : a \in Leads, b \in SecondBytes, c \in Trails}
  \cup {<<a, b, c, d>> : a \in Leads, b \in SecondBytes, c \in Trails, d \in Trails}
  \cup {<<\hE2, \h82, \hAC, a, \hBF>> : a \in Bytes}

MCStrings16 ==
  UNION {[1 .. n -> {0, \h7F, \h80, \h7FF, \h800, \hD7FF, \hD800, \hDBFF, \hDC00, \hDFFF,
                     \hE000, \hFFFF}] : n \in 0 .. 3}

MCStrings32 ==
  UNION {[1 .. n -> {0, \h7F, \h80, \h7FF, \h800, \hD7FF, \hD800, \hDFFF, \hE000, \hFFFF,
                     \h10000, \h10FFFF, \h110000, \h7FFFFFFF}] : n \in 0 .. 2}

(* Seconds of ten nanoseconds; the word holds -512 to 3583.                *)
MCTimes ==
  {[sec |-> p[1], nsec |-> p[2]] :
     p \in {<<-52, 8>>, <<-52, 9>>, <<-1, 0>>, <<-1, 5>>, <<0, 0>>, <<204, 8>>, <<358, 3>>}}
=============================================================================
