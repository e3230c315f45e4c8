--------------------------- MODULE MCFileToButton ---------------------------
(* Every file of a bounded number of lines.                                *)
EXTENDS FileToButton, TLC

\* "l" is a URL that is not UTF-8, and "r" what JSON makes of it.
MCSanitize(t) == IF t = "l" THEN "r" ELSE t

\* x is a text that is no URL, u one that is, v what is left of u when its
\* path is cut off: still a URL.
MCTexts == {"", "x", "u", "v", "l"}
MCShorter == {<<"x", "">>, <<"u", "">>, <<"u", "x">>, <<"u", "v">>, <<"v", "x">>}
MCLines ==
  {Blank, Comment, TooLong,
   Fields(<<"x">>), Fields(<<"", "u">>), Fields(<<"x", "x">>),
   Fields(<<"x", "">>), Fields(<<"x", "u">>), Fields(<<"u", "u">>),
   Fields(<<"u", "u", "u">>), Fields(<<"x", "l">>), Fields(<<"x", "u", "", "x">>)}
=============================================================================
