----------------------------- MODULE MC_YuvBuild -----------------------------
(* A libyuv tree with two headers and three sources, and function lists in    *)
(* the forms rename_symbols accepts.                                       *)
EXTENDS YuvBuild, TLC

MCHeaders == {"convert_argb.h", "scale_argb.h"}
MCSources == {"convert_argb.cc", "scale_argb.cc", "row_common.cc"}
MCDecl == ("I420ToARGB" :> "convert_argb.h") @@ ("ARGBScale" :> "scale_argb.h")
MCDef == ("I420ToARGB" :> "convert_argb.cc") @@ ("ARGBScale" :> "scale_argb.cc")

\* One function per line.
PlainList == <<Line(<<"I420ToARGB">>, FALSE)>>
\* The list after a function is added to it.
GrownList == <<Line(<<"I420ToARGB">>, FALSE), Line(<<"ARGBScale">>, FALSE)>>
\* A blank line, a line with a trailing blank and a line naming its target.
FormattedList == <<Line(<<>>, FALSE), Line(<<"I420ToARGB">>, TRUE),
                   Line(<<"ARGBScale", "yuv_argb_scale">>, FALSE)>>

MCGrownOnly == {GrownList}
MCGrowing == {PlainList, GrownList}
MCFormatted == {FormattedList}
MCMaxFaults == 2
=============================================================================
