CONSTANT Inputs <- MCInputs
SPECIFICATION Spec
CHECK_DEADLOCK FALSE
INVARIANTS
  FieldsAreFound
  SchemasInheritTheirPlace
  ServersOpenWhatIsGenerated
  MessagesFitTheirChannels
  UtilCodeIsThere
  AccessorsFitTogether
