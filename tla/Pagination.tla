----------------------------- MODULE Pagination -----------------------------
(***************************************************************************)
(* The arithmetic of pages: common/utils/pagination.ts, and the skip and   *)
(* take of the repositories' queries.  Page numbers and sizes are the      *)
(* positive ones that generatePagination does not refuse.                  *)
(***************************************************************************)
EXTENDS Naturals, Sequences

\* Mutant: Math.floor.
TotalPagesFloor(total, perPage) == total \div perPage

\* Math.ceil(totalItems / perPage)
TotalPages(total, perPage) == (total + perPage - 1) \div perPage

\* The page nextUrl points to; 0 for null.
NextPage(page, total, perPage) ==
    IF page < TotalPages(total, perPage) THEN page + 1 ELSE 0

\* skip((page - 1) * perPage).take(perPage)
Slice(items, page, perPage) ==
    SubSeq(items, (page - 1) * perPage + 1,
           IF page * perPage <= Len(items) THEN page * perPage ELSE Len(items))
=============================================================================
