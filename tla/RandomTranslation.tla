-------------------------- MODULE RandomTranslation -------------------------
(***************************************************************************)
(* Address translation with random page allocation                         *)
(* (src/translation/impl/random_translation.cpp): the first access of a    *)
(* core to a virtual page gives it a physical page for good.               *)
(***************************************************************************)
EXTENDS Naturals

CONSTANTS
    Spaces,         \* the cores, each with a map of its own
    VPages,         \* virtual pages of a core
    PPages,         \* physical pages
    Reserved,       \* m_reserved_pages
    NoPage          \* not translated yet

(* With every page reserved the code would draw random pages for ever.     *)
ASSUME TranslationAssumption ==
    Reserved \subseteq PPages /\ Reserved # PPages /\ NoPage \notin PPages

VARIABLE pageOf     \* core -> virtual page -> physical page (m_translation)

TranslationInit == pageOf = [c \in Spaces |-> [v \in VPages |-> NoPage]]

(* The pages a first access may get.  The draw is repeated while the page  *)
(* is reserved or marked as taken in m_free_physical_pages, but nothing    *)
(* ever marks one, so that the count of free pages, which chooses between  *)
(* assigning and replacing, makes no difference.                           *)
Candidates == PPages \ Reserved

(* The physical pages translate() may yield for a virtual one.             *)
PhysicalPages(c, v) == IF pageOf[c][v] = NoPage THEN Candidates ELSE {pageOf[c][v]}

Translate(c, v, p) ==
    /\ p \in PhysicalPages(c, v)
    /\ pageOf' = [pageOf EXCEPT ![c][v] = p]
=============================================================================
