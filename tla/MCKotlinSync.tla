---------------------------- MODULE MCKotlinSync ----------------------------
EXTENDS KotlinSync
OneAsset(audit) == "asset"
=============================================================================
