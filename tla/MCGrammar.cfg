CONSTANT Themes <- AllThemes
SPECIFICATION Spec
PROPERTIES AcceptedIsRead TreeExact FormatExact
CHECK_DEADLOCK FALSE
