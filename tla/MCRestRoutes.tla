--------------------------- MODULE MCRestRoutes ---------------------------
(* A small instance of RestRoutes: two API routes, another route.           *)
EXTENDS RestRoutes, TLC

CONSTANTS api1, api2, page, i1, i2, i3, i4, i5, i6, i7

MCRoute == {api1, api2, page}
MCApi   == {api1, api2}
MCId    == {i1, i2, i3, i4, i5, i6, i7}

(* Object ids are only compared.                                            *)
IdSymmetry == Permutations(MCId)
=============================================================================
