---------------------------- MODULE MCCatalogPages ----------------------------
(* The pages of one tab with small drafts and few requests.                  *)
EXTENDS CatalogPages

===============================================================================
