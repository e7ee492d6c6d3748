------------------------------ MODULE MCWallet ------------------------------
(* Instances of Wallet for TLC. *)
EXTENDS Wallet

CONSTANTS Ann, Bob, Testnet, Mainnet, First, Second
=============================================================================
