---------------------------- MODULE MCIFileText -----------------------------
(* One file of up to twelve bytes through a buffer of eight: delimiters,   *)
(* "\r\n", a BOM and characters of several bytes in one buffer or across   *)
(* two.                                                                    *)
EXTENDS IFileTextProperties

a == 97

MCTexts ==
  {BOM,
   <<a, CR, LF, LF, a, a, a, CR, LF, a, CR>>,  \* "\r\n" across two buffers, a lone '\r' last
   BOM \o <<CR, CR, LF, LF, \hC3, \hA9>>,      \* '\r' before "\r\n", an empty line
   <<a, a, \hC3, \hA9, LF, a, \hE2, \h82, \hAC, LF, \hC3>>,  \* the last one is cut short
   <<\hC3, a, \hED, \hA0, \h80, a, a, a>> \o BOM \o <<a>>}   \* not UTF-8; a BOM between

MCSignatures == {<<>>, BOM, <<a, CR, LF, LF, a>>}
=============================================================================
