-------------------------- MODULE MC_CodegenLines --------------------------
EXTENDS CodegenLines

MCFormats == { Defaults,
               [Defaults EXCEPT !.indent_format_scope_end = 0, !.comment_optimized = FALSE],
               [Defaults EXCEPT !.comments_disabled = TRUE, !.min_threshold = 3],
               [Defaults EXCEPT !.collapse_disabled = TRUE, !.max_threshold = 2],
               [Defaults EXCEPT !.disable_comments = TRUE, !.smart_disabled = TRUE] }
\* "All indents are disabled" (formatting.hpp:25).
MCFlat == { [Defaults EXCEPT !.indent_disabled = TRUE] }
=============================================================================
