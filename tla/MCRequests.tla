---------------------------- MODULE MCRequests -----------------------------
(* Small instances of Requests. *)
EXTENDS Requests

MCSpaceVariants == {Unset, ById(5), ByName(7)}

MCBuilderFields == {FieldType.Limit}
=============================================================================
